---------------------------- MODULE Spec2Model ----------------------------
(***************************************************************************)
(* A model of the AWS announcements scraper (src/aws_scraper):             *)
(*   - HTTPClient.fetch_with_retry and its two delay schedules,            *)
(*   - ScraperOrchestrator.run_scraping_workflow with the detail-page      *)
(*     batch, the pre-extraction date filter, storing, and main's exit     *)
(*     status,                                                             *)
(*   - DateFilter.parse_date_filter on strings (tuples of characters) and  *)
(*     DateFilter.filter_by_date on lists of records,                      *)
(*   - HomepageParser.parse_homepage on landing pages,                     *)
(*   - ContentExtractor.parse_announcement_page on detail pages,           *)
(*   - DataStorage.store_data with its duplicate handling.                 *)
(* Eight specifications share the variables:                               *)
(*   SpecFetch    one call of fetch_with_retry, any budget, any outcomes;  *)
(*   SpecFetchLive  SpecFetch with the progress of the retry loop;         *)
(*   Spec         one run of main -> run_scraping_workflow;                *)
(*   SpecDate     parse_date_filter applied to a bounded set of strings;   *)
(*   SpecFilter   filter_by_date and the link filter, each applied twice;  *)
(*   SpecParse    one call of parse_homepage;                              *)
(*   SpecExtract  one call of parse_announcement_page;                     *)
(*   SpecStore    the store_data calls of two runs on one orchestrator.    *)
(***************************************************************************)
EXTENDS Integers, Sequences, FiniteSets, TLC

VARIABLES
    \* ---- HTTPClient.fetch_with_retry (one invocation) ----
    fpc,              \* "idle" | "call" (line 118) | "sleep" (time.sleep) | "returned" | "raised"
    f_url,            \* the url argument
    max_retries,      \* the max_retries argument
    attempt,          \* the loop variable of line 116
    last_exception,   \* line 114 / 124
    calls,            \* outcome of every fetch_page call of this invocation, in order
    sleeps,           \* every delay passed to time.sleep by this invocation, in order
    f_result,         \* the response returned or the exception that left fetch_with_retry
    f_log,            \* the logger.error record written when the exception left
    \* ---- ScraperOrchestrator / main ----
    pc,               \* position of the run
    config,           \* ConfigurationManager values read by the run
    announcement_links,
    total_links_found,
    filtered_links,
    i,                \* loop variable of _extract_all_content (1-based)
    batch_successes,  \* successful_extractions local to _extract_all_content
    batch_failures,   \* failed_extractions local to _extract_all_content
    rate_sleeps,      \* value of i at every time.sleep(rate_limit_delay), in order
    fetch_log,        \* url of every fetch_with_retry call of the run, with its attempts
    result,           \* the ScrapingResult returned to main, NoResult before
    stored,           \* the ScrapingResult handed to a store_data that succeeded
    exit_code,        \* main's return value, -1 before
    \* ---- DateFilter ----
    date_string,      \* the argument of parse_date_filter
    parsed,           \* its outcome, NotParsed before the call
    announcements,    \* the list argument of filter_by_date and of the link filter
    date_filter,      \* their filter argument
    filtered_announcements,    \* outcome of filter_by_date(announcements, date_filter)
    refiltered_announcements,  \* outcome of filter_by_date on that list, same filter
    filtered_link_list,        \* _apply_date_filtering_to_links(announcements, date_filter)
    refiltered_link_list,      \* the same call on that list
    filtered_contents,         \* _apply_date_filtering(announcements), date_filter configured
    \* ---- HomepageParser.parse_homepage (one invocation) ----
    html_content,     \* the landing page
    section,          \* what find_announcements_section returned
    json_links,       \* what _extract_from_json_data returned
    anchor_tags,      \* the anchors of line 147, NotScanned when the line was not reached
    parse_result,     \* the list parse_homepage returned, or its ValueError
    \* ---- ContentExtractor.parse_announcement_page (one invocation) ----
    detail_page,      \* the html_content argument
    supplied_date,    \* the publication_date argument, NoDate for None
    extract_calls,    \* the extraction methods parse_announcement_page called, in order
    announcement_content,  \* the AnnouncementContent returned, or the exception
    \* ---- DataStorage (one object, as one orchestrator holds it) ----
    duplicate_handling,  \* self.duplicate_handling
    stored_urls,      \* self._stored_urls
    scraping_result,  \* successful_extractions of the result each run hands to store_data
    output_files      \* the announcements of every output file written, in order

fvars == <<fpc, f_url, max_retries, attempt, last_exception, calls, sleeps, f_result, f_log>>
wvars == <<pc, config, announcement_links, total_links_found, filtered_links, i,
           batch_successes, batch_failures, rate_sleeps, fetch_log, result, stored, exit_code>>
dvars == <<date_string, parsed>>
lvars == <<announcements, date_filter, filtered_announcements, refiltered_announcements,
           filtered_link_list, refiltered_link_list, filtered_contents>>
hvars == <<html_content, section, json_links, anchor_tags, parse_result>>
xvars == <<detail_page, supplied_date, extract_calls, announcement_content>>
svars == <<duplicate_handling, stored_urls, scraping_result, output_files>>
ovars == <<dvars, lvars, hvars, xvars, svars>>
vars == <<fvars, wvars, ovars>>

Min(a, b) == IF a < b THEN a ELSE b

(***************************************************************************)
(* Bounds of the model.                                                    *)
(***************************************************************************)
\* largest max_retries argument explored by SpecFetch
MaxRetriesBound == 4
\* longest landing-page link list explored by Spec
MaxLinks == 3
\* longest string (before an optional trailing character) explored by SpecDate
MaxStrLen == 7
\* longest record list explored by SpecFilter
MaxRecords == 3
\* most anchors on a landing page of SpecParse
MaxAnchors == 3
\* most JSON objects on a landing page of SpecParse
MaxEntries == 3
\* most segments in the path of an href of SpecParse
MaxSegments == 2
\* most date strings on a detail page of SpecExtract
MaxSources == 2
\* longest flattened content text of a detail page of SpecExtract
MaxTextLen == 52
\* most anchors in the content area of a detail page of SpecExtract
MaxHrefs == 2
\* most successful extractions of a run of SpecStore
MaxStored == 4

(***************************************************************************)
(* http_client.py                                                          *)
(***************************************************************************)
\* What one fetch_page call can do: return a response, raise HTTPError with
\* a status (raise_for_status), raise Timeout or ConnectionError, or raise
\* another RequestException (e.g. TooManyRedirects). status 0: the exception
\* carries no response.
Ok == [type |-> "ok", status |-> 200]
HTTPError(s) == [type |-> "HTTPError", status |-> s]
Timeout == [type |-> "Timeout", status |-> 0]
ConnectionError == [type |-> "ConnectionError", status |-> 0]
TooManyRedirects == [type |-> "TooManyRedirects", status |-> 0]

StatusErrors == {HTTPError(s) : s \in {429, 502, 503, 504, 404, 500}}
TransportErrors == {Timeout, ConnectionError}
Errors == StatusErrors \cup TransportErrors \cup {TooManyRedirects}
Outcomes == {Ok} \cup Errors

\* the network of a whole run answers with fewer kinds than a single call is
\* tried against
RunOutcomes == {Ok, HTTPError(503), HTTPError(404)}

\* an exception object: what was raised, and by which fetch_page call of the
\* invocation (its identity)
Exc(o, n) == [type |-> o.type, status |-> o.status, call |-> n]
NoException == [type |-> "None", status |-> 0, call |-> 0]
Response == [type |-> "response", status |-> 200, call |-> 0]

\* urls are numbers: 0 is the landing page, k > 0 a detail page, NoUrl none
NoUrl == -1

\* hasattr(e, 'response') and e.response is not None (line 127)
HasResponse(e) == e.status # 0

calculate_exponential_backoff_Shifted(k) == Min(2 ^ (k + 1), 4)

\* _calculate_exponential_backoff
calculate_exponential_backoff(k) == Min(2 ^ k, 4)

RateLimitDelays == <<5, 10, 20>>

calculate_rate_limit_delay_Unclamped(k) == 5 * 2 ^ k

\* _calculate_rate_limit_delay: delays[min(attempt, len(delays) - 1)], 0-based
calculate_rate_limit_delay(k) == RateLimitDelays[Min(k, Len(RateLimitDelays) - 1) + 1]

\* The except block of fetch_with_retry, lines 123-161, as a function of the
\* exception, the attempt and the budget: sleep a delay and continue, or raise
\* from the named line.
Retry(d) == [do |-> "sleep", delay |-> d, line |-> 0]
Raise(l) == [do |-> "raise", delay |-> 0, line |-> l]

HandleException_Retry5xx(e, k, m) ==
    IF e.status = 429 /\ k < m THEN Retry(calculate_rate_limit_delay(k))
    ELSE IF (e.status >= 500 \/ e \in TransportErrors) /\ k < m
         THEN Retry(calculate_exponential_backoff(k))
         ELSE Raise(160)

HandleException_SleepAtLast(e, k, m) ==
    IF e.status \in {429, 502, 503, 504} \/ e \in TransportErrors
    THEN Retry(IF e.status = 429 THEN calculate_rate_limit_delay(k)
               ELSE calculate_exponential_backoff(k))
    ELSE Raise(IF e.status # 0 /\ 400 <= e.status /\ e.status < 500 THEN 149 ELSE 160)

HandleException(e, k, m) ==
    IF HasResponse(e)
    THEN IF e.status = 429
         THEN IF k < m THEN Retry(calculate_rate_limit_delay(k)) ELSE Raise(160)
         ELSE IF e.status \in {502, 503, 504}
         THEN IF k < m THEN Retry(calculate_exponential_backoff(k)) ELSE Raise(160)
         ELSE IF 400 <= e.status /\ e.status < 500 /\ e.status # 429
         THEN Raise(149)
         ELSE Raise(160)
    ELSE IF e \in TransportErrors
         THEN IF k < m THEN Retry(calculate_exponential_backoff(k)) ELSE Raise(160)
         ELSE Raise(160)

\* the logger.error record written next to a raise: lines 148 and 160 name
\* the url, line 164 names the url and the retry count (count -1: no count)
NoLog == [line |-> 0, url |-> NoUrl, count |-> -1]
ErrorLog(line, url, m) ==
    [line |-> line, url |-> url, count |-> IF line = 164 THEN m ELSE -1]

FetchIdle ==
    /\ fpc = "idle" /\ f_url = NoUrl /\ max_retries = 0 /\ attempt = 0
    /\ last_exception = NoException /\ calls = <<>> /\ sleeps = <<>>
    /\ f_result = NoException /\ f_log = NoLog

\* entry of fetch_with_retry(url, m): lines 109-116, first pass of the loop head
EnterFetch(url, m) ==
    /\ fpc' = "call"
    /\ f_url' = url
    /\ max_retries' = m
    /\ attempt' = 0
    /\ last_exception' = NoException
    /\ calls' = <<>>
    /\ sleeps' = <<>>
    /\ f_result' = NoException
    /\ f_log' = NoLog

ResetFetch ==
    /\ fpc' = "idle" /\ f_url' = NoUrl /\ max_retries' = 0 /\ attempt' = 0
    /\ last_exception' = NoException /\ calls' = <<>> /\ sleeps' = <<>>
    /\ f_result' = NoException /\ f_log' = NoLog

\* lines 117-161: one fetch_page call and what the loop body does with it
FetchPage ==
    /\ fpc = "call"
    /\ \E o \in (IF pc = "none" THEN Outcomes ELSE RunOutcomes) :
        /\ calls' = Append(calls, o)
        /\ IF o = Ok
           THEN /\ fpc' = "returned"
                /\ f_result' = Response
                /\ UNCHANGED <<last_exception, sleeps, f_log>>
           ELSE LET e == Exc(o, Len(calls) + 1)
                    h == HandleException(o, attempt, max_retries)
                IN /\ last_exception' = e
                   /\ IF h.do = "sleep"
                      THEN /\ fpc' = "sleep"
                           /\ sleeps' = Append(sleeps, h.delay)
                           /\ UNCHANGED <<f_result, f_log>>
                      ELSE /\ fpc' = "raised"
                           /\ f_result' = e
                           /\ f_log' = ErrorLog(h.line, f_url, max_retries)
                           /\ UNCHANGED sleeps
    /\ UNCHANGED <<f_url, max_retries, attempt>>
    /\ UNCHANGED <<wvars, ovars>>

\* time.sleep returns, `continue`, the loop head of line 116; lines 163-165
\* when the range is used up
Continue ==
    /\ fpc = "sleep"
    /\ attempt' = attempt + 1
    /\ IF attempt + 1 <= max_retries
       THEN /\ fpc' = "call"
            /\ UNCHANGED <<f_result, f_log>>
       ELSE /\ fpc' = "raised"
            /\ f_result' = last_exception
            /\ f_log' = ErrorLog(164, f_url, max_retries)
    /\ UNCHANGED <<f_url, max_retries, last_exception, calls, sleeps>>
    /\ UNCHANGED <<wvars, ovars>>

(***************************************************************************)
(* Strings are tuples of one-character strings.                            *)
(***************************************************************************)
Digits == {"0", "1", "2", "3", "4", "5", "6", "7", "8", "9"}
Whitespace == {"\n", " "}

DigitValue(c) ==
    CASE c = "0" -> 0 [] c = "1" -> 1 [] c = "2" -> 2 [] c = "3" -> 3 [] c = "4" -> 4
      [] c = "5" -> 5 [] c = "6" -> 6 [] c = "7" -> 7 [] c = "8" -> 8 [] c = "9" -> 9

RECURSIVE DecimalValue(_)
DecimalValue(s) ==
    IF Len(s) = 0 THEN 0
    ELSE DecimalValue(SubSeq(s, 1, Len(s) - 1)) * 10 + DigitValue(s[Len(s)])

\* str.split(sep)
RECURSIVE Split(_, _)
Split(s, sep) ==
    IF \A k \in 1..Len(s) : s[k] # sep
    THEN <<s>>
    ELSE LET k == CHOOSE n \in 1..Len(s) : s[n] = sep /\ \A j \in 1..(n - 1) : s[j] # sep
         IN <<SubSeq(s, 1, k - 1)>> \o Split(SubSeq(s, k + 1, Len(s)), sep)

\* str.strip(), which int() applies to its argument
RECURSIVE Strip(_)
Strip(s) ==
    IF Len(s) = 0 THEN s
    ELSE IF s[1] \in Whitespace THEN Strip(SubSeq(s, 2, Len(s)))
    ELSE IF s[Len(s)] \in Whitespace THEN Strip(SubSeq(s, 1, Len(s) - 1))
    ELSE s

\* int(s) succeeds (on the characters of the model: digits, "-", whitespace, letters)
IsIntLiteral(s) == LET t == Strip(s) IN Len(t) > 0 /\ \A k \in 1..Len(t) : t[k] \in Digits
\* int(s)
IntOf(s) == DecimalValue(Strip(s))

(***************************************************************************)
(* Values of "nothing yet".                                                *)
(***************************************************************************)
NoDate == <<>>
NoFilter == <<>>
NoConfig == [date_filter |-> NoFilter, max_retries |-> 0, rate_limit_delay |-> 0]
NoResult == [successful_extractions |-> <<>>, failed_extractions |-> <<>>, total_processed |-> -1]
NotParsed == [kind |-> "not called", year |-> 0, month |-> 0]
NotFiltered == [kind |-> "not called", list |-> <<>>]
NoScope == [from |-> 0, to |-> 0]
NoPage ==
    [has_itemTitle |-> FALSE, has_itemLink |-> FALSE, json |-> <<>>, anchors |-> <<>>,
     heading_level |-> 0, heading |-> NoScope, classed |-> NoScope]
NotScanned == [scanned |-> FALSE, tags |-> <<>>]
NotParsedPage == [kind |-> "not called", list |-> <<>>]
\* a string that is missing or empty
Missing == [format |-> "", date |-> NoDate]
NoElement == [present |-> FALSE, datetime |-> Missing, text |-> Missing]
NoTitle == [selector |-> 0, len |-> 0]
NoDetailPage ==
    [titles |-> <<-1, -1, -1, -1, -1>>, script |-> "none",
     ld |-> <<Missing, Missing, Missing>>, times |-> <<>>,
     selected |-> <<NoElement, NoElement, NoElement, NoElement, NoElement, NoElement>>,
     text |-> <<>>, container |-> FALSE, text_len |-> 0, links |-> <<>>]
NotExtracted ==
    [kind |-> "not called", title |-> NoTitle, publication_date |-> NoDate,
     content_text |-> 0, embedded_links |-> <<>>]

(***************************************************************************)
(* scraper_orchestrator.py, content_extractor.extract_content, main        *)
(***************************************************************************)
\* the landing page's url
TargetUrl == 0
\* the max_retries default of fetch_with_retry, which extract_content relies on
DefaultMaxRetries == 3

Filter202601 == <<"2", "0", "2", "6", "-", "0", "1">>
Jan2026 == <<2026, 1>>
Feb2026 == <<2026, 2>>
LinkDates == {NoDate, Jan2026, Feb2026}

\* config_manager values the run reads
Configs == [date_filter : {NoFilter, Filter202601}, max_retries : {0, 1}, rate_limit_delay : {0, 1}]

AnnouncementLink(u, d) == [url |-> u, publication_date |-> d]

\* what parse_homepage can return: from the structured-data path, entries with
\* pairwise distinct urls and optional dates; from the anchor path, entries
\* without dates whose urls may repeat
JsonPages ==
    UNION {{[k \in 1..n |-> AnnouncementLink(k, d[k])] : d \in [1..n -> LinkDates]} : n \in 0..MaxLinks}
AnchorPages ==
    UNION {{[k \in 1..n |-> AnnouncementLink(u[k], NoDate)] : u \in [1..n -> 1..2]} : n \in 0..MaxLinks}
LandingPages == JsonPages \cup AnchorPages

\* the date of a record extracted from a page whose link carried none: found
\* on the page or the extraction time
ResolvedOnPage == <<0, 0>>

AnnouncementContent(link) ==
    [url |-> link.url,
     publication_date |-> IF link.publication_date # NoDate THEN link.publication_date
                          ELSE ResolvedOnPage]

FailedExtraction(u, t) == [url |-> u, error_type |-> t]

\* _create_result
CreateResult(successes, failures, total) ==
    [successful_extractions |-> successes, failed_extractions |-> failures,
     total_processed |-> total]

\* the except block of run_scraping_workflow, lines 119-128
FailureResult(t) == CreateResult(<<>>, <<FailedExtraction(TargetUrl, t)>>, 0)

apply_date_filtering_to_links_KeepUndated(links, date_filter_config) ==
    IF Len(date_filter_config) = 0 THEN links
    ELSE LET parts == Split(date_filter_config, "-")
         IN IF Len(parts) # 2 \/ ~IsIntLiteral(parts[1]) \/ ~IsIntLiteral(parts[2])
            THEN links
            ELSE LET Keep(link) ==
                         \/ link.publication_date = NoDate
                         \/ /\ link.publication_date # NoDate
                            /\ link.publication_date[1] = IntOf(parts[1])
                            /\ link.publication_date[2] = IntOf(parts[2])
                 IN SelectSeq(links, Keep)

\* _apply_date_filtering_to_links: split and int() in a try block whose
\* except returns the list unfiltered
apply_date_filtering_to_links(links, date_filter_config) ==
    IF Len(date_filter_config) = 0 THEN links
    ELSE LET parts == Split(date_filter_config, "-")
         IN IF Len(parts) # 2 \/ ~IsIntLiteral(parts[1]) \/ ~IsIntLiteral(parts[2])
            THEN links
            ELSE LET filter_year == IntOf(parts[1])
                     filter_month == IntOf(parts[2])
                     Keep(link) ==
                         /\ link.publication_date # NoDate
                         /\ link.publication_date[1] = filter_year
                         /\ link.publication_date[2] = filter_month
                 IN SelectSeq(links, Keep)

RecordFailure_Dropped(failures, link, t) == failures

\* lines 186-195: the except block of the batch loop
RecordFailure(failures, link, t) == Append(failures, FailedExtraction(link.url, t))

ShouldRateLimit_AfterLastToo(k, n, delay) == k <= n /\ delay > 0

\* line 200
ShouldRateLimit(k, n, delay) == k < n /\ delay > 0

RunIdle ==
    /\ pc = "none" /\ config = NoConfig /\ announcement_links = <<>>
    /\ total_links_found = 0 /\ filtered_links = <<>> /\ i = 0
    /\ batch_successes = <<>> /\ batch_failures = <<>> /\ rate_sleeps = <<>>
    /\ fetch_log = <<>> /\ result = NoResult /\ stored = NoResult /\ exit_code = -1

DateIdle == date_string = <<>> /\ parsed = NotParsed

FilterIdle ==
    /\ announcements = <<>> /\ date_filter = NoFilter
    /\ filtered_announcements = NotFiltered /\ refiltered_announcements = NotFiltered
    /\ filtered_link_list = NotFiltered /\ refiltered_link_list = NotFiltered
    /\ filtered_contents = NotFiltered

ParserIdle ==
    /\ html_content = NoPage /\ section = "not called" /\ json_links = <<>>
    /\ anchor_tags = NotScanned /\ parse_result = NotParsedPage

ExtractorIdle ==
    /\ detail_page = NoDetailPage /\ supplied_date = NoDate
    /\ extract_calls = <<>> /\ announcement_content = NotExtracted

StorageIdle ==
    /\ duplicate_handling = "skip" /\ stored_urls = {}
    /\ scraping_result = <<>> /\ output_files = <<>>

\* main, line 376, to _fetch_homepage_links, line 145
StartWorkflow ==
    /\ pc = "start"
    /\ pc' = "homepage"
    /\ EnterFetch(TargetUrl, config.max_retries)
    /\ fetch_log' = Append(fetch_log, TargetUrl)
    /\ UNCHANGED <<config, announcement_links, total_links_found, filtered_links, i,
                   batch_successes, batch_failures, rate_sleeps, result, stored, exit_code>>
    /\ UNCHANGED ovars

HomepageFetchFailed_GoesOn ==
    /\ pc = "homepage" /\ fpc = "raised"
    /\ pc' = "store"
    /\ UNCHANGED fvars
    /\ UNCHANGED <<config, announcement_links, total_links_found, filtered_links, i,
                   batch_successes, batch_failures, rate_sleeps, fetch_log, result,
                   stored, exit_code>>
    /\ UNCHANGED ovars

\* fetch_with_retry raised: lines 156-158 re-raise, lines 119-128 return the
\* failure result
HomepageFetchFailed ==
    /\ pc = "homepage" /\ fpc = "raised"
    /\ result' = FailureResult(f_result.type)
    /\ pc' = "returned"
    /\ UNCHANGED fvars
    /\ UNCHANGED <<config, announcement_links, total_links_found, filtered_links, i,
                   batch_successes, batch_failures, rate_sleeps, fetch_log, stored, exit_code>>
    /\ UNCHANGED ovars

\* parse_homepage raises ValueError (no announcements section)
ParseHomepageFailed ==
    /\ pc = "homepage" /\ fpc = "returned"
    /\ result' = FailureResult("ValueError")
    /\ pc' = "returned"
    /\ ResetFetch
    /\ UNCHANGED <<config, announcement_links, total_links_found, filtered_links, i,
                   batch_successes, batch_failures, rate_sleeps, fetch_log, stored, exit_code>>
    /\ UNCHANGED ovars

\* parse_homepage returns, lines 85-92
ParseHomepage ==
    /\ pc = "homepage" /\ fpc = "returned"
    /\ \E page \in LandingPages :
        IF Len(page) = 0
        THEN /\ result' = CreateResult(<<>>, <<>>, 0)
             /\ pc' = "returned"
             /\ UNCHANGED <<announcement_links, total_links_found>>
        ELSE /\ announcement_links' = page
             /\ total_links_found' = Len(page)
             /\ pc' = "filter"
             /\ UNCHANGED result
    /\ ResetFetch
    /\ UNCHANGED <<config, filtered_links, i, batch_successes, batch_failures,
                   rate_sleeps, fetch_log, stored, exit_code>>
    /\ UNCHANGED ovars

\* lines 94-96, then the entry of _extract_all_content, lines 170-173
ApplyDateFilter ==
    /\ pc = "filter"
    /\ filtered_links' = apply_date_filtering_to_links(announcement_links, config.date_filter)
    /\ pc' = "batch"
    /\ UNCHANGED fvars
    /\ UNCHANGED <<config, announcement_links, total_links_found, i, batch_successes,
                   batch_failures, rate_sleeps, fetch_log, result, stored, exit_code>>
    /\ UNCHANGED ovars

\* the loop head of line 175 with a next link: extract_content calls
\* fetch_with_retry(url) without a budget
NextLink ==
    /\ pc = "batch" /\ i < Len(filtered_links)
    /\ i' = i + 1
    /\ pc' = "extract"
    /\ EnterFetch(filtered_links[i + 1].url, DefaultMaxRetries)
    /\ fetch_log' = Append(fetch_log, filtered_links[i + 1].url)
    /\ UNCHANGED <<config, announcement_links, total_links_found, filtered_links,
                   batch_successes, batch_failures, rate_sleeps, result, stored, exit_code>>
    /\ UNCHANGED ovars

\* lines 199-202, after the record of link i was appended
AfterRecord ==
    /\ IF ShouldRateLimit(i, Len(filtered_links), config.rate_limit_delay)
       THEN /\ pc' = "rate_sleep"
            /\ rate_sleeps' = Append(rate_sleeps, i)
       ELSE /\ pc' = "batch"
            /\ UNCHANGED rate_sleeps
    /\ ResetFetch
    /\ UNCHANGED <<config, announcement_links, total_links_found, filtered_links, i,
                   fetch_log, result, stored, exit_code>>
    /\ UNCHANGED ovars

\* the page was fetched and parse_announcement_page returned: lines 180-182
ExtractSucceeded ==
    /\ pc = "extract" /\ fpc = "returned"
    /\ batch_successes' = Append(batch_successes, AnnouncementContent(filtered_links[i]))
    /\ UNCHANGED batch_failures
    /\ AfterRecord

\* the page was fetched and parse_announcement_page raised: extract_content
\* raises ValueError, lines 186-195 record it
ExtractParseFailed ==
    /\ pc = "extract" /\ fpc = "returned"
    /\ batch_failures' = RecordFailure(batch_failures, filtered_links[i], "ValueError")
    /\ UNCHANGED batch_successes
    /\ AfterRecord

\* fetch_with_retry raised: extract_content re-raises, lines 186-195 record it
ExtractFetchFailed ==
    /\ pc = "extract" /\ fpc = "raised"
    /\ batch_failures' = RecordFailure(batch_failures, filtered_links[i], f_result.type)
    /\ UNCHANGED batch_successes
    /\ AfterRecord

\* time.sleep(rate_limit_delay) returns
RateSleepDone ==
    /\ pc = "rate_sleep"
    /\ pc' = "batch"
    /\ UNCHANGED fvars
    /\ UNCHANGED <<config, announcement_links, total_links_found, filtered_links, i,
                   batch_successes, batch_failures, rate_sleeps, fetch_log, result,
                   stored, exit_code>>
    /\ UNCHANGED ovars

\* the loop is over: lines 208-209 return the lists, lines 100-108 build the result
BatchDone ==
    /\ pc = "batch" /\ i = Len(filtered_links)
    /\ pc' = "store"
    /\ UNCHANGED fvars
    /\ UNCHANGED <<config, announcement_links, total_links_found, filtered_links, i,
                   batch_successes, batch_failures, rate_sleeps, fetch_log, result,
                   stored, exit_code>>
    /\ UNCHANGED ovars

\* store_data returns: lines 111-117
StoreData ==
    /\ pc = "store"
    /\ stored' = CreateResult(batch_successes, batch_failures, total_links_found)
    /\ result' = CreateResult(batch_successes, batch_failures, total_links_found)
    /\ pc' = "returned"
    /\ UNCHANGED fvars
    /\ UNCHANGED <<config, announcement_links, total_links_found, filtered_links, i,
                   batch_successes, batch_failures, rate_sleeps, fetch_log, exit_code>>
    /\ UNCHANGED ovars

StoreDataFailed_KeepsRecords ==
    /\ pc = "store"
    /\ result' = CreateResult(batch_successes,
                              Append(batch_failures, FailedExtraction(TargetUrl, "OSError")),
                              total_links_found)
    /\ pc' = "returned"
    /\ UNCHANGED fvars
    /\ UNCHANGED <<config, announcement_links, total_links_found, filtered_links, i,
                   batch_successes, batch_failures, rate_sleeps, fetch_log, stored, exit_code>>
    /\ UNCHANGED ovars

\* store_data raises (the output cannot be written): lines 119-128
StoreDataFailed ==
    /\ pc = "store"
    /\ result' = FailureResult("OSError")
    /\ pc' = "returned"
    /\ UNCHANGED fvars
    /\ UNCHANGED <<config, announcement_links, total_links_found, filtered_links, i,
                   batch_successes, batch_failures, rate_sleeps, fetch_log, stored, exit_code>>
    /\ UNCHANGED ovars

\* main, lines 379-395
MainExit ==
    /\ pc = "returned"
    /\ exit_code' = IF Len(result.successful_extractions) = 0
                       /\ Len(result.failed_extractions) > 0
                    THEN 1 ELSE 0
    /\ pc' = "exit"
    /\ UNCHANGED fvars
    /\ UNCHANGED <<config, announcement_links, total_links_found, filtered_links, i,
                   batch_successes, batch_failures, rate_sleeps, fetch_log, result, stored>>
    /\ UNCHANGED ovars

\* KeyboardInterrupt while the workflow runs: it is no Exception, so neither
\* line 186 nor line 119 catches it; the frames of _extract_all_content and
\* run_scraping_workflow are left without a return value and main, lines
\* 397-399, returns 130. batch_successes and batch_failures keep what the
\* batch had produced at that moment.
Interrupt ==
    /\ pc \in {"homepage", "filter", "batch", "extract", "rate_sleep", "store"}
    /\ pc' = "cancelled"
    /\ exit_code' = 130
    /\ ResetFetch
    /\ UNCHANGED <<config, announcement_links, total_links_found, filtered_links, i,
                   batch_successes, batch_failures, rate_sleeps, fetch_log, result, stored>>
    /\ UNCHANGED ovars

(***************************************************************************)
(* Spec: one run of main.                                                  *)
(***************************************************************************)
Init ==
    /\ pc = "start" /\ config \in Configs /\ announcement_links = <<>>
    /\ total_links_found = 0 /\ filtered_links = <<>> /\ i = 0
    /\ batch_successes = <<>> /\ batch_failures = <<>> /\ rate_sleeps = <<>>
    /\ fetch_log = <<>> /\ result = NoResult /\ stored = NoResult /\ exit_code = -1
    /\ FetchIdle /\ DateIdle /\ FilterIdle /\ ParserIdle /\ ExtractorIdle /\ StorageIdle

Next ==
    \/ StartWorkflow
    \/ FetchPage
    \/ Continue
    \/ HomepageFetchFailed
    \/ ParseHomepageFailed
    \/ ParseHomepage
    \/ ApplyDateFilter
    \/ NextLink
    \/ ExtractSucceeded
    \/ ExtractParseFailed
    \/ ExtractFetchFailed
    \/ RateSleepDone
    \/ BatchDone
    \/ StoreData
    \/ StoreDataFailed
    \/ MainExit
    \/ Interrupt

Spec == Init /\ [][Next]_vars

(***************************************************************************)
(* SpecFetch: one call of fetch_with_retry.                                *)
(***************************************************************************)
InitFetch ==
    /\ fpc = "call" /\ f_url = 1
    /\ max_retries \in 0..MaxRetriesBound
    /\ attempt = 0 /\ last_exception = NoException /\ calls = <<>> /\ sleeps = <<>>
    /\ f_result = NoException /\ f_log = NoLog
    /\ RunIdle /\ DateIdle /\ FilterIdle /\ ParserIdle /\ ExtractorIdle /\ StorageIdle

NextFetch == FetchPage \/ Continue

SpecFetch == InitFetch /\ [][NextFetch]_vars

\* the loop of fetch_with_retry goes on: fetch_page returns or raises (the
\* request has a timeout) and time.sleep returns
SpecFetchLive == SpecFetch /\ WF_vars(NextFetch)

(***************************************************************************)
(* date_filter.py                                                          *)
(***************************************************************************)
\* self.date_pattern.match(s) for re.compile(r'^\d{4}-\d{2}$'): `$` matches at
\* the end of the string and also just before a newline that ends the string
DatePatternMatches(s) ==
    /\ Len(s) \in {7, 8}
    /\ \A k \in {1, 2, 3, 4, 6, 7} : s[k] \in Digits
    /\ s[5] = "-"
    /\ Len(s) = 8 => s[8] = "\n"

ReturnedNone == [kind |-> "None", year |-> 0, month |-> 0]
RaisedValueError == [kind |-> "ValueError", year |-> 0, month |-> 0]
ReturnedTuple(y, m) == [kind |-> "tuple", year |-> y, month |-> m]

\* DateFilter.parse_date_filter
parse_date_filter(s) ==
    IF Len(s) = 0 THEN ReturnedNone
    ELSE IF ~DatePatternMatches(s) THEN RaisedValueError
    ELSE LET parts == Split(s, "-")
             year == IntOf(parts[1])
             month == IntOf(parts[2])
         IN IF month < 1 \/ month > 12 THEN RaisedValueError
            ELSE IF year < 2000 \/ year > 2100 THEN RaisedValueError
            ELSE ReturnedTuple(year, month)

matches_date_criteria_YearOnly(announcement_date, target_year, target_month) ==
    IF announcement_date = NoDate THEN FALSE
    ELSE announcement_date[1] = target_year

\* DateFilter.matches_date_criteria; a datetime is its (year, month)
matches_date_criteria(announcement_date, target_year, target_month) ==
    IF announcement_date = NoDate THEN FALSE
    ELSE announcement_date[1] = target_year /\ announcement_date[2] = target_month

ReturnedList(list) == [kind |-> "list", list |-> list]
RaisedFromFilter == [kind |-> "ValueError", list |-> <<>>]

filter_by_date_DropFirst(list, filter) ==
    IF Len(filter) = 0 THEN ReturnedList(list)
    ELSE LET parsed_date == parse_date_filter(filter)
         IN IF parsed_date.kind = "ValueError" THEN RaisedFromFilter
            ELSE IF parsed_date.kind = "None" THEN ReturnedList(list)
            ELSE LET Keep(announcement) ==
                         matches_date_criteria(announcement.publication_date,
                                               parsed_date.year, parsed_date.month)
                     kept == SelectSeq(list, Keep)
                 IN ReturnedList(IF Len(kept) = 0 THEN kept ELSE Tail(kept))

\* DateFilter.filter_by_date: the ValueError of parse_date_filter is not caught
filter_by_date(list, filter) ==
    IF Len(filter) = 0 THEN ReturnedList(list)
    ELSE LET parsed_date == parse_date_filter(filter)
         IN IF parsed_date.kind = "ValueError" THEN RaisedFromFilter
            ELSE IF parsed_date.kind = "None" THEN ReturnedList(list)
            ELSE LET Keep(announcement) ==
                         matches_date_criteria(announcement.publication_date,
                                               parsed_date.year, parsed_date.month)
                 IN ReturnedList(SelectSeq(list, Keep))

\* ScraperOrchestrator._apply_date_filtering, which run_scraping_workflow
\* does not call: filter_by_date in a try block whose except returns the
\* list unfiltered
apply_date_filtering(announcement_list, date_filter_config) ==
    IF Len(date_filter_config) = 0 THEN announcement_list
    ELSE LET filtered == filter_by_date(announcement_list, date_filter_config)
         IN IF filtered.kind = "ValueError" THEN announcement_list ELSE filtered.list

(***************************************************************************)
(* SpecDate: parse_date_filter on the non-empty strings its caller         *)
(* filter_by_date passes (line 101 returns before the call for an empty    *)
(* filter): up to MaxStrLen characters, then nothing or a newline.         *)
(***************************************************************************)
DateChars == {"0", "1", "2", "-"}
DateStrings ==
    {b \o t : b \in UNION {[1..n -> DateChars] : n \in 1..MaxStrLen}, t \in {<<>>, <<"\n">>}}

InitDate ==
    /\ date_string \in DateStrings
    /\ parsed = NotParsed
    /\ FetchIdle /\ RunIdle /\ FilterIdle /\ ParserIdle /\ ExtractorIdle /\ StorageIdle

ParseDateFilter ==
    /\ parsed = NotParsed
    /\ parsed' = parse_date_filter(date_string)
    /\ UNCHANGED date_string
    /\ UNCHANGED <<fvars, wvars, lvars, hvars, xvars, svars>>

NextDate == ParseDateFilter

SpecDate == InitDate /\ [][NextDate]_vars

(***************************************************************************)
(* SpecFilter: filter_by_date and _apply_date_filtering_to_links applied   *)
(* to a list of records and a filter string, then applied again to what    *)
(* they returned, and _apply_date_filtering applied to the list.  A record *)
(* is its position in the list (as url) and its publication date.          *)
(***************************************************************************)
Jan2025 == <<2025, 1>>
RecordDates == {NoDate, Jan2026, Feb2026, Jan2025}
RecordLists ==
    UNION {{[k \in 1..n |-> AnnouncementLink(k, d[k])] : d \in [1..n -> RecordDates]} :
           n \in 0..MaxRecords}

FilterStrings ==
    {NoFilter, Filter202601, Filter202601 \o <<"\n">>,
     <<"2", "0", "2", "6", "-", "0", "2">>,
     <<"2", "0", "2", "5", "-", "0", "1">>,
     <<"2", "0", "2", "6", "-", "1", "3">>,
     <<"1", "9", "9", "9", "-", "0", "1">>,
     <<"2", "0", "2", "6", "-", "1">>,
     <<"2", "0", "2", "6">>}

InitFilter ==
    /\ announcements \in RecordLists
    /\ date_filter \in FilterStrings
    /\ filtered_announcements = NotFiltered /\ refiltered_announcements = NotFiltered
    /\ filtered_link_list = NotFiltered /\ refiltered_link_list = NotFiltered
    /\ filtered_contents = NotFiltered
    /\ FetchIdle /\ RunIdle /\ DateIdle /\ ParserIdle /\ ExtractorIdle /\ StorageIdle

FilterByDate ==
    /\ filtered_announcements = NotFiltered
    /\ filtered_announcements' = filter_by_date(announcements, date_filter)
    /\ UNCHANGED <<announcements, date_filter, refiltered_announcements,
                   filtered_link_list, refiltered_link_list, filtered_contents>>
    /\ UNCHANGED <<fvars, wvars, dvars, hvars, xvars, svars>>

FilterByDateAgain ==
    /\ filtered_announcements.kind = "list"
    /\ refiltered_announcements = NotFiltered
    /\ refiltered_announcements' = filter_by_date(filtered_announcements.list, date_filter)
    /\ UNCHANGED <<announcements, date_filter, filtered_announcements,
                   filtered_link_list, refiltered_link_list, filtered_contents>>
    /\ UNCHANGED <<fvars, wvars, dvars, hvars, xvars, svars>>

FilterLinks ==
    /\ filtered_link_list = NotFiltered
    /\ filtered_link_list' =
           ReturnedList(apply_date_filtering_to_links(announcements, date_filter))
    /\ UNCHANGED <<announcements, date_filter, filtered_announcements,
                   refiltered_announcements, refiltered_link_list, filtered_contents>>
    /\ UNCHANGED <<fvars, wvars, dvars, hvars, xvars, svars>>

FilterLinksAgain ==
    /\ filtered_link_list.kind = "list"
    /\ refiltered_link_list = NotFiltered
    /\ refiltered_link_list' =
           ReturnedList(apply_date_filtering_to_links(filtered_link_list.list, date_filter))
    /\ UNCHANGED <<announcements, date_filter, filtered_announcements,
                   refiltered_announcements, filtered_link_list, filtered_contents>>
    /\ UNCHANGED <<fvars, wvars, dvars, hvars, xvars, svars>>

FilterContents ==
    /\ filtered_contents = NotFiltered
    /\ filtered_contents' = ReturnedList(apply_date_filtering(announcements, date_filter))
    /\ UNCHANGED <<announcements, date_filter, filtered_announcements,
                   refiltered_announcements, filtered_link_list, refiltered_link_list>>
    /\ UNCHANGED <<fvars, wvars, dvars, hvars, xvars, svars>>

NextFilter ==
    FilterByDate \/ FilterByDateAgain \/ FilterLinks \/ FilterLinksAgain \/ FilterContents

SpecFilter == InitFilter /\ [][NextFilter]_vars

(***************************************************************************)
(* homepage_parser.py.  An href is what urljoin and urlparse read in it:   *)
(* its form, scheme, host, path and fragment.  A path is a tuple of        *)
(* tokens, "/" or a segment; `pattern in path` is containment of tuples.   *)
(***************************************************************************)
BaseNetloc == "www.amazonaws.cn"
\* the path of base_url, line 22
BasePath == <<"/", "en", "/", "new", "/">>

Href(form, scheme, netloc, path, fragment) ==
    [form |-> form, scheme |-> scheme, netloc |-> netloc, path |-> path,
     fragment |-> fragment]
\* href="", and an anchor without href attribute
EmptyHref == Href("empty", "", "", <<>>, "")
NoHref == Href("no attribute", "", "", <<>>, "")

Url(scheme, netloc, path, fragment) ==
    [scheme |-> scheme, netloc |-> netloc, path |-> path, fragment |-> fragment]

\* _resolve_url: an href that starts with http:// or https:// is kept, any
\* other goes through urljoin(base_url, href), which keeps an href with a
\* scheme of its own, puts a fragment-only or empty href on the base url, a
\* path that starts with "/" on the base host, and any other path in the
\* base directory
resolve_url(href) ==
    CASE href.form = "absolute" -> Url(href.scheme, href.netloc, href.path, href.fragment)
      [] href.form = "scheme" -> Url(href.scheme, "", href.path, href.fragment)
      [] href.form = "fragment" -> Url("https", BaseNetloc, BasePath, href.fragment)
      [] href.form = "empty" -> Url("https", BaseNetloc, BasePath, "")
      [] href.form = "rooted" -> Url("https", BaseNetloc, href.path, href.fragment)
      [] href.form = "relative" -> Url("https", BaseNetloc, BasePath \o href.path, href.fragment)

\* p in s
Contains(s, p) == \E k \in 0..(Len(s) - Len(p)) : SubSeq(s, k + 1, k + Len(p)) = p

\* str.lower on a token
LowerToken(t) == CASE t = "About" -> "about" [] t = "New" -> "new" [] OTHER -> t
Lower(path) == [k \in 1..Len(path) |-> LowerToken(path[k])]

\* the tokens of one character
OneCharTokens == {"/", ";"}
\* len(path) > 1
LongerThanOne(path) == Len(path) > 1 \/ (Len(path) = 1 /\ path[1] \notin OneCharTokens)

\* hosts for which 'amazonaws.cn' in parsed.netloc
AwsNetlocs == {"www.amazonaws.cn", "amazonaws.cn"}

skip_patterns ==
    {<<"/", "about", "/">>, <<"/", "contact", "/">>, <<"/", "support", "/">>,
     <<"/", "pricing", "/">>, <<"/", "documentation", "/">>, <<"/", "console", "/">>,
     <<"/", "signin", "/">>, <<"/", "signup", "/">>,
     <<"javascript:">>, <<"mailto:">>, <<"#">>}

announcement_patterns ==
    {<<"/", "new", "/">>, <<"/", "announcement", "/">>, <<"/", "blog", "/">>,
     <<"/", "press", "/">>, <<"/", "release", "/">>, <<"/", "update", "/">>,
     <<"/", "launch", "/">>}

\* _is_announcement_url: urlparse has taken scheme and fragment out of the
\* path the patterns are looked up in
is_announcement_url(url) ==
    IF url.netloc # "" /\ url.netloc \notin AwsNetlocs THEN FALSE
    ELSE LET path == Lower(url.path)
         IN IF \E pattern \in skip_patterns : Contains(path, pattern) THEN FALSE
            ELSE IF \E pattern \in announcement_patterns : Contains(path, pattern) THEN TRUE
            ELSE LongerThanOne(path) /\ path # <<"/">>

\* an <a> element: its href and the title _extract_link_title finds, "" for none
Anchor(href, title) == [href |-> href, title |-> title]
\* a JSON object of the page with its title and url fields, "" and EmptyHref
\* for a field that is missing or empty
JsonEntry(title, href) == [itemTitle |-> title, itemLink |-> href]
\* the AnnouncementLink that parse_homepage builds
Link(title, url) == [title |-> title, url |-> url]

\* _parse_announcement_from_json, as a list of no or one link
parse_announcement_from_json(data) ==
    IF data.itemTitle = "" THEN <<>>
    ELSE IF data.itemLink = EmptyHref THEN <<>>
    ELSE <<Link(data.itemTitle, resolve_url(data.itemLink))>>

\* lines 304-362: the objects the scans find, parsed in the order found
RECURSIVE parse_announcements(_)
parse_announcements(entries) ==
    IF Len(entries) = 0 THEN <<>>
    ELSE parse_announcement_from_json(Head(entries)) \o parse_announcements(Tail(entries))

RECURSIVE unique_announcements_KeepLast(_, _)
unique_announcements_KeepLast(announcement_list, seen_urls) ==
    IF Len(announcement_list) = 0 THEN <<>>
    ELSE LET announcement == Head(announcement_list)
         IN IF \E k \in 2..Len(announcement_list) : announcement_list[k].url = announcement.url
            THEN unique_announcements_KeepLast(Tail(announcement_list), seen_urls)
            ELSE <<announcement>> \o
                 unique_announcements_KeepLast(Tail(announcement_list), seen_urls)

\* lines 364-370: the loop that fills unique_announcements
RECURSIVE unique_announcements(_, _)
unique_announcements(announcement_list, seen_urls) ==
    IF Len(announcement_list) = 0 THEN <<>>
    ELSE LET announcement == Head(announcement_list)
         IN IF announcement.url \notin seen_urls
            THEN <<announcement>> \o
                 unique_announcements(Tail(announcement_list), seen_urls \cup {announcement.url})
            ELSE unique_announcements(Tail(announcement_list), seen_urls)

\* _extract_from_json_data on the whole page (section.find_parent('html'))
extract_from_json_data(page) == unique_announcements(parse_announcements(page.json), {})

\* line 93: range(5)
MaxAncestorLevels == 5
\* line 114
MinSectionLinks == 3

HasHref(anchor) == anchor.href # NoHref
AnchorsOf(page, scope) == SubSeq(page.anchors, scope.from, scope.to)

\* find_announcements_section; page.heading is the nearest div, section or
\* article ancestor with anchors of the text that holds the heading phrase,
\* page.heading_level its distance from the text (0: there is none);
\* page.classed is the container with a keyword class
find_announcements_section(page) ==
    IF page.has_itemTitle /\ page.has_itemLink THEN "document"
    ELSE IF page.heading_level \in 1..MaxAncestorLevels THEN "heading"
    ELSE IF /\ page.classed # NoScope
            /\ Len(SelectSeq(AnchorsOf(page, page.classed), HasHref)) >= MinSectionLinks
         THEN "classed"
    ELSE IF page.has_itemTitle THEN "document"
    ELSE "None"

\* section.find_all('a', href=True)
find_all_anchors(page, found) ==
    SelectSeq(CASE found = "document" -> page.anchors
                [] found = "heading" -> AnchorsOf(page, page.heading)
                [] found = "classed" -> AnchorsOf(page, page.classed),
              HasHref)

RECURSIVE scan_anchors_Reversed(_, _)
scan_anchors_Reversed(tags, links) ==
    IF Len(tags) = 0 THEN links
    ELSE LET anchor == Head(tags)
             full_url == resolve_url(anchor.href)
         IN IF anchor.href = EmptyHref \/ ~is_announcement_url(full_url) \/ anchor.title = ""
            THEN scan_anchors_Reversed(Tail(tags), links)
            ELSE scan_anchors_Reversed(Tail(tags), <<Link(anchor.title, full_url)>> \o links)

\* lines 149-183: the loop over anchor_tags
RECURSIVE scan_anchors(_, _)
scan_anchors(tags, links) ==
    IF Len(tags) = 0 THEN links
    ELSE LET anchor == Head(tags)
         IN IF anchor.href = EmptyHref THEN scan_anchors(Tail(tags), links)
            ELSE LET full_url == resolve_url(anchor.href)
                 IN IF ~is_announcement_url(full_url) THEN scan_anchors(Tail(tags), links)
                    ELSE IF anchor.title = "" THEN scan_anchors(Tail(tags), links)
                    ELSE scan_anchors(Tail(tags), Append(links, Link(anchor.title, full_url)))

Scanned(tags) == [scanned |-> TRUE, tags |-> tags]
RaisedSectionNotFound == [kind |-> "ValueError", list |-> <<>>]

\* parse_homepage with extract_announcement_links, as the values of
\* <<section, json_links, anchor_tags, parse_result>>
parse_homepage(page) ==
    LET found == find_announcements_section(page)
    IN IF found = "None"
       THEN <<found, <<>>, NotScanned, RaisedSectionNotFound>>
       ELSE LET links == extract_from_json_data(page)
            IN IF Len(links) > 0
               THEN <<found, links, NotScanned, ReturnedList(links)>>
               ELSE LET tags == find_all_anchors(page, found)
                    IN <<found, links, Scanned(tags),
                         ReturnedList(scan_anchors(tags, <<>>))>>

(***************************************************************************)
(* SpecParse: one call of parse_homepage on a landing page of three        *)
(* families: pages that vary the containers, the markers and the anchors   *)
(* in them; pages with one anchor that vary its href; pages that vary the  *)
(* JSON objects.                                                           *)
(***************************************************************************)
Segments == {"about", "About", "documentation", "docs", "new", "team"}

\* "/" + "/".join(segments), with a "/" at the end if asked for
RECURSIVE RootedPath(_, _)
RootedPath(segments, slash) ==
    IF Len(segments) = 0 THEN <<"/">>
    ELSE IF Len(segments) = 1
         THEN <<"/", segments[1]>> \o (IF slash THEN <<"/">> ELSE <<>>)
    ELSE <<"/", segments[1]>> \o RootedPath(Tail(segments), slash)

SegmentLists == UNION {[1..n -> Segments] : n \in 0..MaxSegments}
RootedPaths == {RootedPath(segments, slash) : segments \in SegmentLists, slash \in BOOLEAN}
RelativePaths == {Tail(path) : path \in RootedPaths \ {<<"/">>}}

FeatureXPath == <<"/", "new", "/", "2026", "/", "01", "/", "feature-x">>

Hrefs ==
    {Href("absolute", "https", BaseNetloc, path, "") : path \in RootedPaths \cup {<<>>}}
    \cup {Href("absolute", "https", "example.com", path, "") : path \in RootedPaths}
    \cup {Href("rooted", "", "", path, "") : path \in RootedPaths \cup {FeatureXPath}}
    \cup {Href("relative", "", "", path, "") : path \in RelativePaths}
    \cup {Href("fragment", "", "", <<>>, "top"), Href("fragment", "", "", <<>>, ""),
          Href("scheme", "javascript", "", <<"void(0)">>, ""),
          Href("scheme", "javascript", "", <<";">>, ""),
          Href("scheme", "mailto", "", <<"a@b.c">>, ""),
          EmptyHref}

Titles == {"", "T"}

\* a page whose heading container holds its one anchor
AnchorPage(href, title) ==
    [NoPage EXCEPT !.anchors = <<Anchor(href, title)>>, !.heading_level = 1,
                   !.heading = [from |-> 1, to |-> 1]]

NewX == Href("rooted", "", "", <<"/", "new", "/", "x">>, "")
AboutTeam == Href("rooted", "", "", <<"/", "about", "/", "team">>, "")
RelativeX == Href("relative", "", "", <<"x">>, "")
ScopeAnchors ==
    {Anchor(NewX, "T"), Anchor(RelativeX, "U"), Anchor(AboutTeam, "T"), Anchor(NoHref, "T")}
\* the markers in the text and what the JSON scans find: nothing without the
\* "itemTitle" token that every pattern of the scans holds
OneJsonEntry == <<JsonEntry("J", NewX)>>
MarkersAndJson ==
    {<<t, l, <<>>>> : t \in BOOLEAN, l \in BOOLEAN} \cup {<<TRUE, l, OneJsonEntry>> : l \in BOOLEAN}

HeadingLevels == {MaxAncestorLevels, MaxAncestorLevels + 1}

HeadingsOf(anchors) ==
    {<<0, NoScope>>} \cup
    {<<level, [from |-> 1, to |-> k]>> : level \in HeadingLevels, k \in 1..Len(anchors)}
ClassedOf(anchors) ==
    {NoScope} \cup {[from |-> k, to |-> Len(anchors)] : k \in 1..Len(anchors)}

\* a page with the heading container around its first anchors and the
\* container with a keyword class around its last anchors
ScopePage(markers_json, anchors, heading, classed) ==
    [has_itemTitle |-> markers_json[1], has_itemLink |-> markers_json[2],
     json |-> markers_json[3], anchors |-> anchors,
     heading_level |-> heading[1], heading |-> heading[2], classed |-> classed]

JsonTitles == {"", "T1", "T2"}
AbsoluteX == Href("absolute", "https", BaseNetloc, BasePath \o <<"x">>, "")
JsonHrefs == {RelativeX, AbsoluteX, NewX, EmptyHref}
JsonEntries == {JsonEntry(title, href) : title \in JsonTitles, href \in JsonHrefs}
\* a page with both markers, JSON objects and one anchor
JsonPage(json) ==
    [NoPage EXCEPT !.has_itemTitle = TRUE, !.has_itemLink = TRUE, !.json = json,
                   !.anchors = <<Anchor(NewX, "T")>>]

InitParse ==
    /\ \/ \E n \in 0..MaxAnchors : \E anchors \in [1..n -> ScopeAnchors] :
             \E markers_json \in MarkersAndJson :
                \E heading \in HeadingsOf(anchors), classed \in ClassedOf(anchors) :
                   html_content = ScopePage(markers_json, anchors, heading, classed)
       \/ \E href \in Hrefs, title \in Titles : html_content = AnchorPage(href, title)
       \/ \E n \in 0..MaxEntries : \E json \in [1..n -> JsonEntries] :
             html_content = JsonPage(json)
    /\ section = "not called" /\ json_links = <<>>
    /\ anchor_tags = NotScanned /\ parse_result = NotParsedPage
    /\ FetchIdle /\ RunIdle /\ DateIdle /\ FilterIdle /\ ExtractorIdle /\ StorageIdle

CallParseHomepage ==
    /\ parse_result = NotParsedPage
    /\ LET r == parse_homepage(html_content)
       IN /\ section' = r[1]
          /\ json_links' = r[2]
          /\ anchor_tags' = r[3]
          /\ parse_result' = r[4]
    /\ UNCHANGED html_content
    /\ UNCHANGED <<fvars, wvars, dvars, lvars, xvars, svars>>

NextParse == CallParseHomepage

SpecParse == InitParse /\ [][NextParse]_vars

(***************************************************************************)
(* content_extractor.py.  A detail page is what the extraction reads in    *)
(* it: for each title selector the length of the text of the element       *)
(* select_one finds (-1: no element), the JSON-LD script, the time         *)
(* elements, the elements the date selectors find, the dates written in    *)
(* the text outside these elements, the content container with the length  *)
(* of its flattened text, and the hrefs of the anchors in the content      *)
(* area.  A date string is the strptime format it is written in and the    *)
(* date it writes; a title is the selector it came from and its length.    *)
(***************************************************************************)
title_selectors == <<"h1", ".announcement-title", ".post-title", ".article-title", "title">>
\* line 202
MinTitleLen == 5
\* line 252
MinContentLen == 50

Title(selector, len) == [selector |-> selector, len |-> len]

RECURSIVE extract_title_LengthFrom5(_, _)
extract_title_LengthFrom5(page, k) ==
    IF k > Len(title_selectors) THEN NoTitle
    ELSE IF page.titles[k] >= MinTitleLen THEN Title(k, page.titles[k])
    ELSE extract_title_LengthFrom5(page, k + 1)

\* _extract_title, from selector k on
RECURSIVE extract_title(_, _)
extract_title(page, k) ==
    IF k > Len(title_selectors) THEN NoTitle
    ELSE IF page.titles[k] # -1 /\ page.titles[k] > MinTitleLen THEN Title(k, page.titles[k])
    ELSE extract_title(page, k + 1)

date_formats ==
    <<"%Y-%m-%d", "%Y-%m-%dT%H:%M:%S", "%Y-%m-%dT%H:%M:%SZ", "%Y-%m-%dT%H:%M:%S.%fZ",
      "%m/%d/%Y", "%m-%d-%Y", "%B %d, %Y", "%b %d, %Y", "%d %B %Y", "%d %b %Y">>

DateString(format, date) == [format |-> format, date |-> date]

\* _parse_date_string: None for no string, else the date of the first format
\* that strptime accepts
parse_date_string(date_str) ==
    IF date_str = Missing THEN NoDate
    ELSE IF \E k \in 1..Len(date_formats) : date_formats[k] = date_str.format
         THEN date_str.date
    ELSE NoDate

\* the first string of the list that parses, as a date
RECURSIVE FirstParsed(_)
FirstParsed(strings) ==
    IF Len(strings) = 0 THEN NoDate
    ELSE IF parse_date_string(Head(strings)) # NoDate THEN parse_date_string(Head(strings))
    ELSE FirstParsed(Tail(strings))

FoundDate(date) == [kind |-> "returned", date |-> date]
RaisedTypeError == [kind |-> "TypeError", date |-> NoDate]
RaisedAttributeError == [kind |-> "AttributeError", date |-> NoDate]

\* a JSON value that is a number or an object: it is truthy and has no strip()
NotAString == [format |-> "not a string", date |-> NoDate]

\* lines 335-342: the fields of the JSON-LD object in the order of
\* date_fields; _parse_date_string returns None for a value that is absent,
\* null or empty, and line 397 raises AttributeError for one that is not a
\* string
RECURSIVE date_from_fields(_)
date_from_fields(fields) ==
    IF Len(fields) = 0 THEN FoundDate(NoDate)
    ELSE IF Head(fields) = NotAString THEN RaisedAttributeError
    ELSE IF parse_date_string(Head(fields)) # NoDate
         THEN FoundDate(parse_date_string(Head(fields)))
    ELSE date_from_fields(Tail(fields))

\* _extract_structured_date: json.loads raises TypeError, which line 343
\* does not catch, for a script element without a string; a script that is
\* not JSON is skipped
extract_structured_date(page) ==
    IF page.script = "no string" THEN RaisedTypeError
    ELSE LET from_script == IF page.script = "object" THEN date_from_fields(page.ld)
                            ELSE FoundDate(NoDate)
         IN IF from_script.kind # "returned" \/ from_script.date # NoDate THEN from_script
            ELSE FoundDate(FirstParsed([k \in 1..Len(page.times) |-> page.times[k].datetime]))

\* _parse_date_from_element
parse_date_from_element(element) ==
    IF element.datetime # Missing /\ parse_date_string(element.datetime) # NoDate
    THEN parse_date_string(element.datetime)
    ELSE parse_date_string(element.text)

date_selectors ==
    <<".publication-date", ".post-date", ".article-date", ".date", "time[datetime]", ".published">>

\* lines 228-234, from selector k on
RECURSIVE date_from_selectors(_, _)
date_from_selectors(page, k) ==
    IF k > Len(date_selectors) THEN NoDate
    ELSE IF /\ page.selected[k].present
            /\ parse_date_from_element(page.selected[k]) # NoDate
         THEN parse_date_from_element(page.selected[k])
    ELSE date_from_selectors(page, k + 1)

\* date_patterns, lines 375-380, each as the format of the written dates it
\* matches
date_patterns == <<"%Y-%m-%d", "%m/%d/%Y", "%m-%d-%Y", "%B %d, %Y">>
\* the pattern whose only group is the month name
MonthNamePattern == 4

\* re.findall(date_patterns[k], text): for every written date the pattern
\* matches, in text order, what its group captured: the whole date for the
\* first three patterns, the month name for the fourth
findall(k, text) ==
    LET Matched(written) == written.format = date_patterns[k]
        hits == SelectSeq(text, Matched)
    IN [j \in 1..Len(hits) |->
          IF k = MonthNamePattern THEN DateString("%B", <<hits[j].date[2]>>) ELSE hits[j]]

\* the matches in the order of the two loops of lines 382-384
RECURSIVE matches_from(_, _)
matches_from(k, text) ==
    IF k > Len(date_patterns) THEN <<>>
    ELSE findall(k, text) \o matches_from(k + 1, text)

\* _extract_date_from_text
extract_date_from_text(page) == FirstParsed(matches_from(1, page.text))

extract_publication_date_TextFirst(page) ==
    IF extract_date_from_text(page) # NoDate THEN FoundDate(extract_date_from_text(page))
    ELSE LET structured == extract_structured_date(page)
         IN IF structured.kind # "returned" \/ structured.date # NoDate THEN structured
            ELSE FoundDate(date_from_selectors(page, 1))

\* _extract_publication_date
extract_publication_date(page) ==
    LET structured == extract_structured_date(page)
    IN IF structured.kind # "returned" \/ structured.date # NoDate THEN structured
       ELSE IF date_from_selectors(page, 1) # NoDate
            THEN FoundDate(date_from_selectors(page, 1))
       ELSE FoundDate(extract_date_from_text(page))

\* _extract_content_text: the length of the text, 0 for None
extract_content_text(page) ==
    IF page.container /\ page.text_len > 0 /\ page.text_len > MinContentLen
    THEN page.text_len
    ELSE 0

\* datetime.now() of line 103
ExtractionTime == <<2026, 11, 4>>

\* the hrefs for which urljoin raises ValueError, e.g. "http://[::1"
MalformedHref == "malformed"
\* extract_embedded_links: an href that is empty after strip() or starts
\* with "#" is passed over, one that makes urljoin raise is skipped by the
\* except block of lines 176-178, every other is kept, in document order
extract_embedded_links(page) ==
    LET Kept(href) == href \notin {"empty", MalformedHref, "fragment"}
    IN SelectSeq(page.links, Kept)

Content(title, date, text, links) ==
    [kind |-> "content", title |-> title, publication_date |-> date, content_text |-> text,
     embedded_links |-> links]
\* an exception that leaves parse_announcement_page
RaisedFromPage(type) ==
    [kind |-> type, title |-> NoTitle, publication_date |-> NoDate, content_text |-> 0,
     embedded_links |-> <<>>]

parse_announcement_page_PageDateFirst(page, publication_date) ==
    LET title == extract_title(page, 1)
        extracted == extract_publication_date(page)
        content_text == extract_content_text(page)
    IN IF title = NoTitle THEN <<<<"_extract_title">>, RaisedFromPage("ValueError")>>
       ELSE IF extracted.kind # "returned"
            THEN <<<<"_extract_title", "_extract_publication_date">>,
                   RaisedFromPage(extracted.kind)>>
       ELSE IF content_text = 0
            THEN <<<<"_extract_title", "_extract_publication_date", "_extract_content_text">>,
                   RaisedFromPage("ValueError")>>
       ELSE <<<<"_extract_title", "_extract_publication_date", "_extract_content_text",
                "extract_embedded_links">>,
              Content(title,
                      IF extracted.date # NoDate THEN extracted.date
                      ELSE IF publication_date # NoDate THEN publication_date
                      ELSE ExtractionTime,
                      content_text, extract_embedded_links(page))>>

\* parse_announcement_page, as the values of <<extract_calls,
\* announcement_content>>
parse_announcement_page(page, publication_date) ==
    LET title == extract_title(page, 1)
        date_calls == IF publication_date # NoDate THEN <<>>
                      ELSE <<"_extract_publication_date">>
        extracted == IF publication_date # NoDate THEN FoundDate(publication_date)
                     ELSE extract_publication_date(page)
        date == IF extracted.date # NoDate THEN extracted.date ELSE ExtractionTime
        content_text == extract_content_text(page)
    IN IF title = NoTitle THEN <<<<"_extract_title">>, RaisedFromPage("ValueError")>>
       ELSE IF extracted.kind # "returned"
            THEN <<<<"_extract_title">> \o date_calls, RaisedFromPage(extracted.kind)>>
       ELSE IF content_text = 0
            THEN <<<<"_extract_title">> \o date_calls \o <<"_extract_content_text">>,
                   RaisedFromPage("ValueError")>>
       ELSE <<<<"_extract_title">> \o date_calls \o
                <<"_extract_content_text", "extract_embedded_links">>,
              Content(title, date, content_text, extract_embedded_links(page))>>

(***************************************************************************)
(* SpecExtract: one call of parse_announcement_page on a detail page of    *)
(* these families: pages that vary the title elements; pages that vary     *)
(* the date strings, with or without a supplied date; pages with a JSON-LD *)
(* field that is not a string; pages that vary the dates written in the    *)
(* text; pages that vary the content container; pages that vary the        *)
(* anchors of the content area.                                            *)
(***************************************************************************)
TitleLengths == {-1, 0, 4, 5, 6, 7}
GoodTitles == <<6, -1, -1, -1, -1>>
SuppliedDate == <<2025, 12, 6>>

\* the places of a page that can hold a date string: the three JSON-LD
\* fields, datetime and text of the time element, datetime and text of the
\* elements of the five class selectors, two dates written in the text
Slots == 1..17
\* the places whose string is part of soup.get_text()
ElementTextSlots == {5, 7, 9, 11, 13, 15}
FreeTextSlots == {16, 17}
\* the string in place k, if it has one: one that parses, or one that no
\* format accepts: with a UTC offset in an attribute or a JSON-LD field, and
\* written with dots, which no date pattern matches either, in a text
ParsingString(k) ==
    IF k \in FreeTextSlots THEN DateString("%Y-%m-%d", <<2026, 1, k>>)
    ELSE DateString("%Y-%m-%dT%H:%M:%SZ", <<2026, 1, k>>)
OffsetString(k) ==
    IF k \in ElementTextSlots \cup FreeTextSlots THEN DateString("%d.%m.%Y", <<2026, 1, k>>)
    ELSE DateString("%Y-%m-%dT%H:%M:%S%z", <<2026, 1, k>>)

ElementOf(datetime, text) ==
    IF datetime = Missing /\ text = Missing THEN NoElement
    ELSE [present |-> TRUE, datetime |-> datetime, text |-> text]

\* the page with string v[k] in place k
DatePage(script, v) ==
    LET time == ElementOf(v[4], v[5])
    IN [titles |-> GoodTitles, script |-> script,
        ld |-> <<v[1], v[2], v[3]>>,
        times |-> IF v[4] = Missing THEN <<>> ELSE <<time>>,
        selected |-> <<ElementOf(v[6], v[7]), ElementOf(v[8], v[9]), ElementOf(v[10], v[11]),
                       ElementOf(v[12], v[13]),
                       IF v[4] = Missing THEN NoElement ELSE time,
                       ElementOf(v[14], v[15])>>,
        text |-> SelectSeq(<<v[16], v[17]>>, LAMBDA c : c # Missing),
        container |-> TRUE, text_len |-> MinContentLen + 1, links |-> <<>>]

\* strings in the places at[1..n], parsing where ok[k]
StringsAt(at, ok) ==
    [k \in Slots |->
        IF \E j \in DOMAIN at : at[j] = k
        THEN LET j == CHOOSE j \in DOMAIN at : at[j] = k
             IN IF ok[j] THEN ParsingString(k) ELSE OffsetString(k)
        ELSE Missing]

Scripts == {"none", "object", "invalid", "no string"}

\* a page whose only date string is <time datetime="2026-01-15T00:00:00Z">
TimeElementPage ==
    DatePage("none", [k \in Slots |->
                         IF k = 4 THEN DateString("%Y-%m-%dT%H:%M:%SZ", <<2026, 1, 15>>)
                         ELSE Missing])

\* the forms a date is written in in the text: the four of the date
\* patterns, and with dots
WrittenForms == {"%Y-%m-%d", "%m/%d/%Y", "%m-%d-%Y", "%B %d, %Y", "%d.%m.%Y"}
\* the text with written[k] as the form of its k-th date, January 14 + k
TextOf(written) == [k \in 1..Len(written) |-> DateString(written[k], <<2026, 1, 14 + k>>)]

LinkHrefs == {"absolute", "relative", "fragment", "empty", MalformedHref}

InitExtract ==
    /\ \/ /\ \E titles \in [1..Len(title_selectors) -> TitleLengths] :
                detail_page = [DatePage("none", [k \in Slots |-> Missing])
                                  EXCEPT !.titles = titles]
          /\ supplied_date = NoDate
       \/ /\ \E script \in Scripts, n \in 0..MaxSources :
                \E at \in {a \in [1..n -> Slots] : \A j \in 1..(n - 1) : a[j] < a[j + 1]} :
                   \E ok \in [1..n -> BOOLEAN] :
                      detail_page = DatePage(script, StringsAt(at, ok))
          /\ supplied_date \in {NoDate, SuppliedDate}
       \/ detail_page = TimeElementPage /\ supplied_date = NoDate
       \/ /\ \E j \in 1..3 :
                detail_page = DatePage("object", [k \in Slots |->
                                                    IF k = j THEN NotAString
                                                    ELSE IF k = 4 THEN ParsingString(k)
                                                    ELSE Missing])
          /\ supplied_date = NoDate
       \/ /\ \E n \in 0..MaxSources : \E written \in [1..n -> WrittenForms] :
                detail_page = [DatePage("none", [k \in Slots |-> Missing])
                                  EXCEPT !.text = TextOf(written)]
          /\ supplied_date = NoDate
       \/ /\ \E n \in 0..MaxHrefs : \E links \in [1..n -> LinkHrefs] :
                \E script \in {"none", "no string"} :
                   detail_page = [DatePage(script, [k \in Slots |-> Missing])
                                     EXCEPT !.links = links]
          /\ supplied_date = NoDate
       \/ /\ \E container \in BOOLEAN, text_len \in 0..MaxTextLen :
                detail_page = [DatePage("none", [k \in Slots |-> Missing])
                                  EXCEPT !.container = container, !.text_len = text_len]
          /\ supplied_date = NoDate
    /\ extract_calls = <<>> /\ announcement_content = NotExtracted
    /\ FetchIdle /\ RunIdle /\ DateIdle /\ FilterIdle /\ ParserIdle /\ StorageIdle

CallParseAnnouncementPage ==
    /\ announcement_content = NotExtracted
    /\ LET r == parse_announcement_page(detail_page, supplied_date)
       IN /\ extract_calls' = r[1]
          /\ announcement_content' = r[2]
    /\ UNCHANGED <<detail_page, supplied_date>>
    /\ UNCHANGED <<fvars, wvars, dvars, lvars, hvars, svars>>

NextExtract == CallParseAnnouncementPage

SpecExtract == InitExtract /\ [][NextExtract]_vars

(***************************************************************************)
(* data_storage.py.  An announcement is its url and the version its title  *)
(* is marked with (1: the title as extracted).                             *)
(***************************************************************************)
Stored(url, version) == [url |-> url, version |-> version]

\* the 'skip' branch of _handle_duplicates, lines 78-87, as
\* <<filtered, self._stored_urls>>
RECURSIVE skip_duplicates(_, _, _)
skip_duplicates(announcement_list, filtered, urls) ==
    IF Len(announcement_list) = 0 THEN <<filtered, urls>>
    ELSE LET announcement == Head(announcement_list)
         IN IF announcement.url \notin urls
            THEN skip_duplicates(Tail(announcement_list), Append(filtered, announcement),
                                 urls \cup {announcement.url})
            ELSE skip_duplicates(Tail(announcement_list), filtered, urls)

\* the 'version' branch, lines 95-120: url_counts is local to the call
RECURSIVE version_duplicates(_, _, _)
version_duplicates(announcement_list, versioned, url_counts) ==
    IF Len(announcement_list) = 0 THEN versioned
    ELSE LET announcement == Head(announcement_list)
             seen == Len(SelectSeq(url_counts, LAMBDA u : u = announcement.url))
         IN version_duplicates(Tail(announcement_list),
                               Append(versioned, Stored(announcement.url, seen + 1)),
                               Append(url_counts, announcement.url))

\* _handle_duplicates for the three strategies validate_config admits
handle_duplicates(announcement_list, strategy, urls) ==
    LET all_urls == urls \cup {announcement_list[k].url : k \in 1..Len(announcement_list)}
    IN CASE strategy = "skip" -> skip_duplicates(announcement_list, <<>>, urls)
         [] strategy = "overwrite" -> <<announcement_list, all_urls>>
         [] strategy = "version" -> <<version_duplicates(announcement_list, <<>>, <<>>), all_urls>>

(***************************************************************************)
(* SpecStore: the store_data calls of two runs of the workflow on one      *)
(* orchestrator, whose DataStorage is built once in __init__; the runs     *)
(* see the same pages, so both hand the same extractions to store_data.    *)
(***************************************************************************)
Strategies == {"skip", "overwrite", "version"}
StoredUrls == 1..2
Runs == 2

InitStore ==
    /\ duplicate_handling \in Strategies
    /\ stored_urls = {}
    /\ \E n \in 0..MaxStored : \E urls \in [1..n -> StoredUrls] :
          scraping_result = [k \in 1..n |-> Stored(urls[k], 1)]
    /\ output_files = <<>>
    /\ FetchIdle /\ RunIdle /\ DateIdle /\ FilterIdle /\ ParserIdle /\ ExtractorIdle

\* store_data, lines 39-74: the file holds what _handle_duplicates returned
CallStoreData ==
    /\ Len(output_files) < Runs
    /\ LET r == handle_duplicates(scraping_result, duplicate_handling, stored_urls)
       IN /\ output_files' = Append(output_files, r[1])
          /\ stored_urls' = r[2]
    /\ UNCHANGED <<duplicate_handling, scraping_result>>
    /\ UNCHANGED <<fvars, wvars, dvars, lvars, hvars, xvars>>

NextStore == CallStoreData

SpecStore == InitStore /\ [][NextStore]_vars

(***************************************************************************)
(* Claims about fetch_with_retry, checked under SpecFetch.                 *)
(***************************************************************************)
ExpBackoffErrors == {HTTPError(502), HTTPError(503), HTTPError(504), Timeout, ConnectionError}
RetryableErrors == ExpBackoffErrors \cup {HTTPError(429)}

\* attempt k (0-based) has been made, and was followed by a sleep and then by
\* attempt k+1, as far as the invocation has got
RetriedAfter(k) ==
    /\ Len(sleeps) >= k + 1
    /\ \/ Len(calls) = k + 1 /\ fpc = "sleep" /\ attempt = k
       \/ Len(calls) = k + 1 /\ fpc = "call" /\ attempt = k + 1
       \/ Len(calls) >= k + 2

AllCallsAre(o) == \A n \in 1..Len(calls) : calls[n] = o

\* C1: an attempt k < max_retries that fails with 502, 503, 504, a timeout or
\* a connection failure is followed by a sleep of min(2^k, 4) seconds and by
\* attempt k+1; with max_retries = 2 and a server that always answers 503 the
\* invocation ends after exactly 3 attempts and the sleeps 1, 2, raising the
\* 503 of the third attempt.
C1_ExponentialBackoff ==
    /\ \A k \in 0..(Len(calls) - 1) :
         (calls[k + 1] \in ExpBackoffErrors /\ k < max_retries) =>
             /\ RetriedAfter(k)
             /\ sleeps[k + 1] = Min(2 ^ k, 4)
    /\ (max_retries = 2 /\ fpc \in {"returned", "raised"} /\ AllCallsAre(HTTPError(503))) =>
             /\ Len(calls) = 3
             /\ sleeps = <<1, 2>>
             /\ fpc = "raised"
             /\ f_result = Exc(HTTPError(503), 3)

C1_Witness ==
    /\ max_retries = 2 /\ fpc = "raised"
    /\ calls = <<HTTPError(503), HTTPError(503), HTTPError(503)>>
    /\ sleeps = <<1, 2>>

\* C2: an attempt k < max_retries that fails with 429 is followed by a sleep
\* of [5, 10, 20][min(k, 2)] seconds and by attempt k+1, k counting every
\* earlier attempt; no invocation retries more than max_retries times, and a
\* 429 on attempt max_retries is raised with no sleep after it.
C2_RateLimitSchedule ==
    /\ \A k \in 0..(Len(calls) - 1) :
         /\ (calls[k + 1] = HTTPError(429) /\ k < max_retries) =>
               /\ RetriedAfter(k)
               /\ sleeps[k + 1] = <<5, 10, 20>>[Min(k, 2) + 1]
         /\ (calls[k + 1] = HTTPError(429) /\ k >= max_retries) =>
               /\ k = max_retries
               /\ fpc = "raised"
               /\ f_result = Exc(HTTPError(429), k + 1)
               /\ Len(sleeps) = k
    /\ Len(sleeps) <= max_retries

C2_Witness ==
    /\ max_retries = 4 /\ fpc = "raised"
    /\ calls = <<HTTPError(503), HTTPError(429), Timeout, HTTPError(429), HTTPError(429)>>
    /\ sleeps = <<1, 10, 4, 20>>

\* C3: a failure that is neither 429, nor 502/503/504, nor a timeout or
\* connection failure is raised by the attempt that met it: it is the last
\* call of the invocation and no sleep follows it, whatever max_retries is.
C3_NonRetryableRaisedAtOnce ==
    \A k \in 0..(Len(calls) - 1) :
        (calls[k + 1] \in Errors \ RetryableErrors) =>
            /\ Len(calls) = k + 1
            /\ Len(sleeps) = k
            /\ fpc = "raised"
            /\ f_result = Exc(calls[k + 1], k + 1)

C3_Witness ==
    /\ max_retries = 3 /\ fpc = "raised"
    /\ calls = <<HTTPError(503), HTTPError(500)>>
    /\ sleeps = <<1>>
    /\ attempt = 1

\* C4: when all max_retries + 1 attempts failed with a retryable error, the
\* exception that leaves fetch_with_retry is the one of the last attempt, and
\* the error record written with it names the url and the attempt count.
C4_ExhaustionTaggedWithCount ==
    (/\ fpc = "raised"
     /\ Len(calls) = max_retries + 1
     /\ \A n \in 1..Len(calls) : calls[n] \in RetryableErrors) =>
        /\ f_result = Exc(calls[Len(calls)], Len(calls))
        /\ f_log.url = f_url
        /\ f_log.count # -1

(***************************************************************************)
(* Claims about the run, checked under Spec.                               *)
(***************************************************************************)
UrlsOf(seq) == [k \in 1..Len(seq) |-> seq[k].url]

\* links whose record has been appended by the batch loop
Completed == IF pc = "extract" THEN i - 1 ELSE i

InBatch == pc \in {"batch", "extract", "rate_sleep", "store"}

\* the first n links whose outcome is tag, in order
RECURSIVE LinksOfKind(_, _, _, _)
LinksOfKind(links, kind, tag, n) ==
    IF n = 0 THEN <<>>
    ELSE LET r == LinksOfKind(links, kind, tag, n - 1)
         IN IF kind[n] = tag THEN Append(r, links[n]) ELSE r

\* C5: in the batch every processed link has exactly one record, an
\* AnnouncementContent or a FailedExtraction carrying its url: the links
\* processed so far split into those of the successes and those of the
\* failures, each list in the links' order, the two lengths add up to the
\* number processed, and to n when the loop is over; a failure does not end
\* the batch.
C5_OneRecordPerLink ==
    InBatch =>
        /\ Len(batch_successes) + Len(batch_failures) = Completed
        /\ \E kind \in [1..Completed -> {"success", "failure"}] :
              /\ UrlsOf(batch_successes) = UrlsOf(LinksOfKind(filtered_links, kind, "success", Completed))
              /\ UrlsOf(batch_failures) = UrlsOf(LinksOfKind(filtered_links, kind, "failure", Completed))
        /\ pc = "store" => Completed = Len(filtered_links)

C5_Witness ==
    /\ pc = "store"
    /\ UrlsOf(filtered_links) = <<1, 2, 3>>
    /\ UrlsOf(batch_successes) = <<3>>
    /\ batch_failures = <<FailedExtraction(1, "HTTPError"), FailedExtraction(2, "ValueError")>>

IsJan2026(link) == link.publication_date = <<2026, 1>>

\* C6: with the filter "2026-01" the urls fetched after the landing page are,
\* in order, urls of the landing-page links dated January 2026 and of no
\* other link; none is fetched before the filter has run; a landing page
\* listing a February link and two January links passes exactly the two
\* January links to the batch, in landing-page order.
C6_FilterBeforeFetch ==
    config.date_filter = <<"2", "0", "2", "6", "-", "0", "1">> =>
        /\ pc \in {"start", "homepage", "filter"} => Len(fetch_log) <= 1
        /\ LET january == UrlsOf(SelectSeq(announcement_links, IsJan2026))
               fetched == SubSeq(fetch_log, 2, Len(fetch_log))
           IN /\ Len(fetched) <= Len(january)
              /\ fetched = SubSeq(january, 1, Len(fetched))
              /\ pc = "store" => fetched = january
        /\ (/\ pc \in {"batch", "extract", "rate_sleep", "store"}
            /\ announcement_links = <<AnnouncementLink(1, <<2026, 2>>),
                                      AnnouncementLink(2, <<2026, 1>>),
                                      AnnouncementLink(3, <<2026, 1>>)>>)
           => filtered_links = <<AnnouncementLink(2, <<2026, 1>>),
                                 AnnouncementLink(3, <<2026, 1>>)>>

C6_Witness ==
    /\ pc = "store"
    /\ config.date_filter = Filter202601
    /\ announcement_links = <<AnnouncementLink(1, Feb2026), AnnouncementLink(2, Jan2026),
                              AnnouncementLink(3, Jan2026)>>
    /\ fetch_log = <<TargetUrl, 2, 3>>

\* the landing-page fetch is the last fetch made and it raised
LandingFetchFailed == f_url = TargetUrl /\ fpc = "raised" /\ pc # "homepage"

\* C7: when the landing-page fetch has failed the run is over: nothing was
\* filtered, no detail page fetched, nothing stored, and the result returned
\* has no success, total_processed 0 and one failure naming the landing page.
C7_LandingFailureEndsRun ==
    LandingFetchFailed =>
        /\ pc \in {"returned", "exit"}
        /\ result.successful_extractions = <<>>
        /\ Len(result.failed_extractions) = 1
        /\ result.failed_extractions[1].url = TargetUrl
        /\ result.total_processed = 0
        /\ stored = NoResult
        /\ fetch_log = <<TargetUrl>>
        /\ announcement_links = <<>> /\ filtered_links = <<>>
        /\ batch_successes = <<>> /\ batch_failures = <<>> /\ rate_sleeps = <<>>

C7_Witness ==
    /\ pc = "exit" /\ LandingFetchFailed
    /\ config.max_retries = 1
    /\ calls = <<HTTPError(503), HTTPError(503)>>
    /\ exit_code = 1

Max(a, b) == IF a > b THEN a ELSE b

\* C8: with a positive rate-limit delay the orchestrator sleeps once after
\* each link but the last, whatever the link's outcome: the sleeps so far are
\* those after links 1, 2, ..., and after the loop there are max(0, n-1) of
\* them; one detail page is in work at a time, and none during a sleep.
C8_DelayBetweenLinks ==
    (config.rate_limit_delay > 0 /\ InBatch) =>
        LET n == Len(filtered_links)
            m == CASE pc = "extract" -> i - 1
                   [] pc = "rate_sleep" -> i
                   [] pc = "batch" -> IF i < n THEN i ELSE Max(0, n - 1)
                   [] pc = "store" -> Max(0, n - 1)
        IN /\ rate_sleeps = [k \in 1..m |-> k]
           /\ Len(fetch_log) - 1 = i
           /\ pc # "extract" => fpc = "idle" /\ Len(batch_successes) + Len(batch_failures) = i
           /\ pc = "extract" => Len(batch_successes) + Len(batch_failures) = i - 1

C8_Witness ==
    /\ pc = "store" /\ config.rate_limit_delay > 0
    /\ Len(filtered_links) = 3
    /\ rate_sleeps = <<1, 2>>
    /\ Len(batch_successes) = 1 /\ Len(batch_failures) = 2

\* C9: after a KeyboardInterrupt that hit the batch while it was running, the
\* records the batch had produced are in the result the caller holds.
C9_InterruptKeepsRecords ==
    (/\ pc = "cancelled"
     /\ Len(batch_successes) + Len(batch_failures) > 0
     /\ Len(batch_successes) + Len(batch_failures) < Len(filtered_links)) =>
        /\ result.successful_extractions = batch_successes
        /\ result.failed_extractions = batch_failures

(***************************************************************************)
(* Claims about parse_date_filter, checked under SpecDate.                 *)
(***************************************************************************)
HasYearMonthShape(s) ==
    /\ Len(s) = 7
    /\ \A k \in {1, 2, 3, 4, 6, 7} : s[k] \in Digits
    /\ s[5] = "-"

\* C10: parse_date_filter returns the year and the month written in the
\* string when the string is 4 digits, "-", 2 digits with the year in
\* 2000..2100 and the month in 1..12, and raises ValueError for every other
\* string.
C10_ParseAcceptsExactlyValid ==
    parsed # NotParsed =>
        IF /\ HasYearMonthShape(date_string)
           /\ DecimalValue(SubSeq(date_string, 1, 4)) \in 2000..2100
           /\ DecimalValue(SubSeq(date_string, 6, 7)) \in 1..12
        THEN parsed = [kind |-> "tuple",
                       year |-> DecimalValue(SubSeq(date_string, 1, 4)),
                       month |-> DecimalValue(SubSeq(date_string, 6, 7))]
        ELSE parsed.kind = "ValueError"

(***************************************************************************)
(* Claims about filter_by_date and the link filter, checked under          *)
(* SpecFilter.                                                             *)
(***************************************************************************)
YearWritten(s) == DecimalValue(SubSeq(s, 1, 4))
MonthWritten(s) == DecimalValue(SubSeq(s, 6, 7))
IsValidFilter(s) ==
    /\ HasYearMonthShape(s)
    /\ YearWritten(s) \in 2000..2100
    /\ MonthWritten(s) \in 1..12
HasDateOf(record, s) ==
    /\ record.publication_date # NoDate
    /\ record.publication_date[1] = YearWritten(s)
    /\ record.publication_date[2] = MonthWritten(s)

\* C11: filter_by_date with an absent filter returns the input list
\* unchanged; with a valid filter it returns exactly the records whose
\* publication date has the filter's year and month, in their original
\* relative order, and no record without a publication date.
C11_FilterByDateSelects ==
    filtered_announcements # NotFiltered =>
        /\ date_filter = NoFilter => filtered_announcements = ReturnedList(announcements)
        /\ IsValidFilter(date_filter) =>
            /\ filtered_announcements.kind = "list"
            /\ LET out == filtered_announcements.list
               IN /\ \A k \in 1..Len(out) :
                        /\ HasDateOf(out[k], date_filter)
                        /\ \E j \in 1..Len(announcements) : announcements[j] = out[k]
                  /\ \A j \in 1..Len(announcements) :
                        HasDateOf(announcements[j], date_filter) =>
                            \E k \in 1..Len(out) : out[k] = announcements[j]
                  /\ \A k \in 1..(Len(out) - 1) : out[k].url < out[k + 1].url
                  /\ \A k \in 1..Len(out) : out[k].publication_date # NoDate

\* a valid filter has selected two or more records of a list that also holds
\* an undated record, which it left out
C11_Witness ==
    /\ IsValidFilter(date_filter)
    /\ filtered_announcements.kind = "list"
    /\ Len(filtered_announcements.list) >= 2
    /\ \E j \in 1..Len(announcements) : announcements[j].publication_date = NoDate

\* C12: filtering the list a date filter returned, with the same criterion,
\* returns that list again (same elements, same order), for filter_by_date
\* and for the orchestrator's link filter.
C12_FilterIdempotent ==
    /\ refiltered_announcements # NotFiltered =>
           refiltered_announcements = filtered_announcements
    /\ refiltered_link_list # NotFiltered =>
           refiltered_link_list = filtered_link_list

\* both filters ran twice with a filter that kept some records and dropped some
C12_Witness ==
    /\ date_filter # NoFilter
    /\ refiltered_announcements.kind = "list"
    /\ refiltered_link_list.kind = "list"
    /\ Len(filtered_announcements.list) \in 1..(Len(announcements) - 1)
    /\ Len(filtered_link_list.list) \in 1..(Len(announcements) - 1)

(***************************************************************************)
(* Claims about parse_homepage, checked under SpecParse.                   *)
(***************************************************************************)
\* the index of the first entry of the list with the url
FirstWithUrl(list, url) ==
    CHOOSE k \in 1..Len(list) : list[k].url = url /\ \A j \in 1..(k - 1) : list[j].url # url

HomepageParsed == parse_result # NotParsedPage

\* C13: the list the structured-data path returns has pairwise distinct
\* urls, has every url of the parsed JSON entries, holds for each url the
\* first parsed entry with that url, and lists them in the order in which
\* their urls were first seen.
C13_JsonDedupKeepsFirst ==
    (HomepageParsed /\ section # "None") =>
        LET input == parse_announcements(html_content.json)
            out == json_links
        IN /\ \A j, k \in 1..Len(out) : j # k => out[j].url # out[k].url
           /\ {input[k].url : k \in 1..Len(input)} = {out[k].url : k \in 1..Len(out)}
           /\ \A k \in 1..Len(out) : out[k] = input[FirstWithUrl(input, out[k].url)]
           /\ \A k \in 1..(Len(out) - 1) :
                 FirstWithUrl(input, out[k].url) < FirstWithUrl(input, out[k + 1].url)

\* two JSON objects with different titles and different hrefs that resolve to
\* one url were parsed, a third with another url came before or after, and
\* two links were returned
C13_Witness ==
    /\ HomepageParsed
    /\ Len(json_links) = 2
    /\ \E j, k \in 1..Len(html_content.json) :
          /\ j < k
          /\ html_content.json[j].itemLink # html_content.json[k].itemLink
          /\ html_content.json[j].itemTitle \notin {"", html_content.json[k].itemTitle}
          /\ html_content.json[k].itemTitle # ""
          /\ resolve_url(html_content.json[j].itemLink) =
                resolve_url(html_content.json[k].itemLink)

\* the anchor passes lines 151-167: an href, an announcement url, a title
AnchorAccepted(anchor) ==
    /\ anchor.href # EmptyHref
    /\ is_announcement_url(resolve_url(anchor.href))
    /\ anchor.title # ""
LinkOfAnchor(anchor) == Link(anchor.title, resolve_url(anchor.href))

\* the anchors with an href of the container that section names, in the
\* order of the document
ScopeTags ==
    LET scope == CASE section = "document" -> [from |-> 1, to |-> Len(html_content.anchors)]
                   [] section = "heading" -> html_content.heading
                   [] section = "classed" -> html_content.classed
    IN SelectSeq(SubSeq(html_content.anchors, scope.from, scope.to), HasHref)

\* C14: when the JSON extraction yields an entry, parse_homepage returns
\* exactly its entries and scans no anchor; anchors are scanned only when it
\* yields nothing, and the result is then the accepted anchors of the scope
\* in document order.
C14_JsonPreferredElseAnchorsInOrder ==
    (HomepageParsed /\ section # "None") =>
        /\ Len(json_links) > 0 =>
              (parse_result = ReturnedList(json_links) /\ anchor_tags = NotScanned)
        /\ anchor_tags.scanned <=> Len(json_links) = 0
        /\ anchor_tags.scanned =>
              LET accepted == SelectSeq(ScopeTags, AnchorAccepted)
              IN /\ anchor_tags.tags = ScopeTags
                 /\ parse_result.kind = "list"
                 /\ Len(parse_result.list) = Len(accepted)
                 /\ \A k \in 1..Len(accepted) :
                       parse_result.list[k] = LinkOfAnchor(accepted[k])

\* an anchor scan returned two different links and left out an anchor it
\* went through
C14_Witness ==
    /\ HomepageParsed
    /\ anchor_tags.scanned
    /\ Len(parse_result.list) >= 2
    /\ parse_result.list[1] # parse_result.list[2]
    /\ Len(anchor_tags.tags) > Len(parse_result.list)

\* the container the anchor scan is claimed to use: the heading container
\* within 5 levels, else the keyword-class container with 3 anchors, else the
\* document when a marker is in the page
FirstScopeThatExists ==
    IF html_content.heading_level \in 1..5 THEN "heading"
    ELSE IF /\ html_content.classed # NoScope
            /\ Len(SelectSeq(SubSeq(html_content.anchors, html_content.classed.from,
                                    html_content.classed.to), HasHref)) >= 3
         THEN "classed"
    ELSE IF html_content.has_itemTitle THEN "document"
    ELSE "None"

TagsOfScope(name) ==
    LET scope == CASE name = "document" -> [from |-> 1, to |-> Len(html_content.anchors)]
                   [] name = "heading" -> html_content.heading
                   [] name = "classed" -> html_content.classed
    IN SelectSeq(SubSeq(html_content.anchors, scope.from, scope.to), HasHref)

\* C15: when the JSON extraction yields nothing, the anchors scanned are
\* those of the first container that exists of heading container, keyword
\* container, whole document (markers in the page); parse_homepage raises
\* ValueError when there is none, and only then.
C15_AnchorScopeIsFirstThatExists ==
    HomepageParsed =>
        /\ (Len(json_links) = 0 /\ FirstScopeThatExists # "None") =>
              anchor_tags = Scanned(TagsOfScope(FirstScopeThatExists))
        /\ parse_result.kind = "ValueError" <=>
              (Len(json_links) = 0 /\ FirstScopeThatExists = "None")

NavigationDenylist ==
    {"about", "contact", "support", "pricing", "docs", "console", "signin", "signup"}
AnnouncementAllowlist == {"new", "announcement", "blog", "press", "release", "update", "launch"}
HasSegmentIn(path, names) == \E k \in 1..Len(path) : LowerToken(path[k]) \in names

\* the anchor is one the scan is claimed to reject
ClaimedRejected(anchor) ==
    \/ anchor.href.form = "fragment"
    \/ anchor.href.form = "scheme" /\ anchor.href.scheme \in {"javascript", "mailto"}
    \/ /\ resolve_url(anchor.href).netloc \in AwsNetlocs
       /\ HasSegmentIn(resolve_url(anchor.href).path, NavigationDenylist)
\* the anchor is one the scan is claimed to accept
ClaimedAccepted(anchor) ==
    /\ ~ClaimedRejected(anchor)
    /\ \/ HasSegmentIn(resolve_url(anchor.href).path, AnnouncementAllowlist)
       \/ resolve_url(anchor.href).path \notin {<<>>, <<"/">>}

\* C16: the anchor scan returns, of the anchors with a title and a non-empty
\* href, exactly those that are not fragment-only, javascript: or mailto:
\* links and not same-domain paths on the navigation denylist, and whose path
\* is on the announcement allowlist or is not the root.
C16_AnchorsRejectedAndAccepted ==
    (HomepageParsed /\ anchor_tags.scanned) =>
        LET Claimed(anchor) ==
                anchor.href # EmptyHref /\ anchor.title # "" /\ ClaimedAccepted(anchor)
            accepted == SelectSeq(anchor_tags.tags, Claimed)
        IN /\ Len(parse_result.list) = Len(accepted)
           /\ \A k \in 1..Len(accepted) : parse_result.list[k] = LinkOfAnchor(accepted[k])

(***************************************************************************)
(* Claims about parse_announcement_page, checked under SpecExtract.        *)
(***************************************************************************)
PageParsed == announcement_content # NotExtracted
Extracted == announcement_content.kind = "content"
DateExtractionRan == \E k \in 1..Len(extract_calls) : extract_calls[k] = "_extract_publication_date"

\* C17: a record that parse_announcement_page returns has a publication date
\* and a non-empty content text; with a supplied date the record has that
\* date and _extract_publication_date was not called; without one the date
\* is the one _extract_publication_date found, or the extraction time when
\* it found none, and finding none does not make the page fail.
C17_DateResolvedAndTextNonEmpty ==
    /\ Extracted =>
          /\ announcement_content.publication_date # NoDate
          /\ announcement_content.content_text > 0
          /\ supplied_date # NoDate =>
                /\ announcement_content.publication_date = supplied_date
                /\ ~DateExtractionRan
          /\ supplied_date = NoDate =>
                /\ DateExtractionRan
                /\ LET found == extract_publication_date(detail_page).date
                   IN announcement_content.publication_date =
                         IF found # NoDate THEN found ELSE ExtractionTime
    /\ (PageParsed /\ ~Extracted /\ DateExtractionRan
        /\ extract_publication_date(detail_page) = FoundDate(NoDate)) =>
          extract_calls[Len(extract_calls)] # "_extract_publication_date"

\* a record was returned for a supplied date and a page on which a date
\* would have been found
C17_Witness ==
    /\ Extracted
    /\ supplied_date # NoDate
    /\ extract_publication_date(detail_page).date # NoDate

\* C18: the title is the text of the first of the selectors h1,
\* .announcement-title, .post-title, .article-title, title whose element has
\* a text of more than 5 characters; a text of 5 characters is passed over;
\* when no selector has such a text the page fails with ValueError at the
\* title.
C18_TitleCascade ==
    PageParsed =>
        LET long == {k \in 1..5 : detail_page.titles[k] > 5}
        IN IF long = {}
           THEN /\ announcement_content.kind = "ValueError"
                /\ extract_calls = <<"_extract_title">>
           ELSE /\ extract_calls # <<"_extract_title">>
                /\ Extracted =>
                      LET first == CHOOSE k \in long : \A j \in long : k <= j
                      IN announcement_content.title = Title(first, detail_page.titles[first])

\* an h1 of 5 characters was passed over for the text of a later selector
C18_Witness ==
    /\ Extracted
    /\ detail_page.titles[1] = 5
    /\ announcement_content.title.selector > 1

\* the date strings of the page in the claimed order: the JSON-LD fields
\* datePublished, dateCreated, dateModified, the datetime attributes of the
\* time elements, datetime then text of the element of each date selector,
\* the dates a pattern captures whole in the text, by pattern
RECURSIVE SelectorStrings(_, _)
SelectorStrings(page, k) ==
    IF k > 6 THEN <<>>
    ELSE (IF page.selected[k].present
          THEN <<page.selected[k].datetime, page.selected[k].text>>
          ELSE <<>>) \o SelectorStrings(page, k + 1)
CandidatesInOrder(page) ==
    (IF page.script = "object" THEN page.ld ELSE <<>>)
    \o [k \in 1..Len(page.times) |-> page.times[k].datetime]
    \o SelectorStrings(page, 1)
    \o SelectSeq(page.text, LAMBDA w : w.format = "%Y-%m-%d")
    \o SelectSeq(page.text, LAMBDA w : w.format = "%m/%d/%Y")
    \o SelectSeq(page.text, LAMBDA w : w.format = "%m-%d-%Y")
SupportedFormats ==
    {"%Y-%m-%d", "%Y-%m-%dT%H:%M:%S", "%Y-%m-%dT%H:%M:%SZ", "%Y-%m-%dT%H:%M:%S.%fZ",
     "%m/%d/%Y", "%m-%d-%Y", "%B %d, %Y", "%b %d, %Y", "%d %B %Y", "%d %b %Y"}
Parses(string) == string # Missing /\ string.format \in SupportedFormats

\* C19: without a supplied date, the date of a returned record is the date
\* of the first string that parses among the JSON-LD fields, the time
\* elements' datetime attributes, the date selectors' elements and the
\* pattern matches, in that order; the page whose only date string is
\* <time datetime="2026-01-15T00:00:00Z"> gets 2026-01-15.
C19_FirstDateThatParses ==
    (Extracted /\ supplied_date = NoDate) =>
        /\ LET strings == CandidatesInOrder(detail_page)
               parsing == {k \in 1..Len(strings) : Parses(strings[k])}
           IN parsing # {} =>
                 announcement_content.publication_date =
                    strings[CHOOSE k \in parsing : \A j \in parsing : k <= j].date
        /\ detail_page = TimeElementPage =>
              announcement_content.publication_date = <<2026, 1, 15>>

\* two strings of different places parse and the record has the date of the
\* one that comes first, which is not the first place of all
C19_Witness ==
    /\ Extracted
    /\ supplied_date = NoDate
    /\ LET strings == CandidatesInOrder(detail_page)
       IN \E j, k \in 1..Len(strings) :
             /\ 1 < j /\ j < k
             /\ Parses(strings[j]) /\ Parses(strings[k])
             /\ strings[j].date # strings[k].date
             /\ announcement_content.publication_date = strings[j].date

BodyExtractionRan == \E k \in 1..Len(extract_calls) : extract_calls[k] = "_extract_content_text"

\* C20: when body extraction runs on a page with a content container, the
\* page fails with ValueError exactly when the flattened text has fewer than
\* 50 characters; a text of 50 characters or more is the content_text.
C20_BodyRejectedUnder50 ==
    (PageParsed /\ BodyExtractionRan /\ detail_page.container) =>
        IF detail_page.text_len < 50
        THEN announcement_content.kind = "ValueError"
        ELSE /\ Extracted
             /\ announcement_content.content_text = detail_page.text_len

TitleResolves == extract_title(detail_page, 1) # NoTitle
BodyResolves == extract_content_text(detail_page) > 0

\* C21: a page whose title and body resolve yields a record whatever its
\* optional inputs are: a JSON-LD script that is empty or not JSON, a date
\* field that is not a parsable date string and an unparsable attribute or
\* text are passed over and the date is that of the next candidate that
\* parses, and an href for which the url cannot be built is left out of the
\* embedded links.
C21_MalformedOptionalInputSwallowed ==
    (PageParsed /\ TitleResolves /\ BodyResolves) =>
        /\ Extracted
        /\ \A k \in 1..Len(announcement_content.embedded_links) :
              announcement_content.embedded_links[k] # MalformedHref
        /\ supplied_date = NoDate =>
              LET strings == CandidatesInOrder(detail_page)
                  parsing == {k \in 1..Len(strings) : Parses(strings[k])}
              IN parsing # {} =>
                    announcement_content.publication_date =
                       strings[CHOOSE k \in parsing : \A j \in parsing : k <= j].date

(***************************************************************************)
(* Claims about main's exit status, checked under Spec.                    *)
(***************************************************************************)
MainReturned == exit_code # -1

\* C22: main returns 0 for every run in which an extraction succeeded,
\* however many failed; it returns a non-zero status only for runs without a
\* successful extraction, and for every such run in which links were
\* processed.
C22_ExitStatusReportsTotalFailure ==
    MainReturned =>
        /\ Len(batch_successes) > 0 => exit_code = 0
        /\ exit_code # 0 => Len(batch_successes) = 0
        /\ (Len(batch_successes) = 0 /\ Len(batch_failures) > 0) => exit_code # 0

(***************************************************************************)
(* Further claims about the run, checked under Spec.                       *)
(***************************************************************************)
\* C24: every fetch_with_retry call of the run, for the landing page and for
\* each detail page, makes at most (configured max_retries + 1) fetch_page
\* calls.
C24_BudgetBoundsEveryFetch ==
    pc \in {"homepage", "extract"} => Len(calls) <= config.max_retries + 1

\* C25: in the ScrapingResult of every run, total_processed is the number
\* of links whose extraction was attempted, the successes and the failures
\* together, with or without a date filter and when the landing page failed.
C25_TotalProcessedCountsRecords ==
    result # NoResult =>
        result.total_processed =
            Len(result.successful_extractions) + Len(result.failed_extractions)

\* the batch of a run over links was completed and store_data raised
StoreFailed == pc \in {"returned", "exit"} /\ total_links_found > 0 /\ stored = NoResult

\* C30: when store_data raises after the batch, run_scraping_workflow
\* returns a result with no successful extraction, total_processed 0 and one
\* failed extraction, whose url is the landing page's: the records of the
\* batch are not in it.
C30_StoreFailureDropsRecords ==
    StoreFailed =>
        /\ result # NoResult
        /\ result.successful_extractions = <<>>
        /\ result.total_processed = 0
        /\ Len(result.failed_extractions) = 1
        /\ result.failed_extractions[1].url = TargetUrl

\* store_data raised after a batch with a success and a failure
C30_Witness ==
    /\ StoreFailed
    /\ Len(batch_successes) > 0
    /\ Len(batch_failures) > 0

(***************************************************************************)
(* Claims about store_data, checked under SpecStore.                       *)
(***************************************************************************)
\* C23: the second of two runs on one orchestrator that see the same pages
\* stores the announcements the first run stored: no url is left out of the
\* second output because the first run stored it.
C23_RepeatedRunsIndependent ==
    Len(output_files) = Runs => output_files[2] = output_files[1]

(***************************************************************************)
(* Further claims about parse_homepage, checked under SpecParse.           *)
(***************************************************************************)
\* C26: the links of every list parse_homepage returns, from the JSON
\* objects or from the anchor scan, have pairwise distinct urls.
C26_UrlsPairwiseDistinct ==
    HomepageParsed =>
        \A j, k \in 1..Len(parse_result.list) :
            parse_result.list[j].url = parse_result.list[k].url => j = k

(***************************************************************************)
(* Further claims about parse_announcement_page, checked under SpecExtract.*)
(***************************************************************************)
\* the forms ISO, US-slash, US-dash and "Month DD, YYYY"
PatternForms == {"%Y-%m-%d", "%m/%d/%Y", "%m-%d-%Y", "%B %d, %Y"}
DatesWrittenIn(page, forms) ==
    {page.text[k].date : k \in {j \in 1..Len(page.text) : page.text[j].format \in forms}}
NoDateOutsideText(page) ==
    LET strings == (IF page.script = "object" THEN page.ld ELSE <<>>)
                   \o [k \in 1..Len(page.times) |-> page.times[k].datetime]
                   \o SelectorStrings(page, 1)
    IN \A k \in 1..Len(strings) : ~Parses(strings[k])

\* C27: on a page without a supplied date, a structured-data date or a date
\* in an element of the date selectors, whose text holds a date written as
\* YYYY-MM-DD, MM/DD/YYYY, MM-DD-YYYY or "Month DD, YYYY", the publication
\* date of the record is a date written in the text in one of these forms,
\* not the extraction time.
C27_TextScanFindsFourForms ==
    (/\ Extracted
     /\ supplied_date = NoDate
     /\ NoDateOutsideText(detail_page)
     /\ DatesWrittenIn(detail_page, PatternForms) # {}) =>
        announcement_content.publication_date \in DatesWrittenIn(detail_page, PatternForms)

(***************************************************************************)
(* Further claims about the date filters, checked under SpecFilter.        *)
(***************************************************************************)
\* C28: for every filter string and every list, the link filter of the
\* orchestrator and its content filter, which goes through DateFilter, keep
\* the same records; a string that parse_date_filter rejects is not applied
\* as a year and month by either: both leave the list as it is.
C28_TwoFiltersAgree ==
    (filtered_link_list.kind = "list" /\ filtered_contents.kind = "list") =>
        /\ filtered_link_list.list = filtered_contents.list
        /\ parse_date_filter(date_filter).kind = "ValueError" =>
              /\ filtered_link_list.list = announcements
              /\ filtered_contents.list = announcements

(***************************************************************************)
(* Further claims about fetch_with_retry, checked under SpecFetchLive.     *)
(***************************************************************************)
FetchEnded == fpc \in {"returned", "raised"}

\* what C29 says of every state of an invocation
WithinBudget ==
    /\ Len(calls) <= max_retries + 1
    /\ Len(sleeps) <= max_retries
    \* a success is the last call, and its response is returned with no
    \* sleep after it
    /\ \A k \in 1..Len(calls) :
          calls[k] = Ok => /\ k = Len(calls)
                           /\ fpc = "returned"
                           /\ f_result = Response
                           /\ Len(sleeps) = k - 1
    /\ fpc = "returned" => calls[Len(calls)] = Ok
    \* a sleep is followed by one attempt: the attempt after the k-th sleep is
    \* call k + 1, and a sleep that is under way has an attempt left
    /\ fpc = "sleep" => Len(calls) = Len(sleeps) /\ Len(calls) <= max_retries
    /\ fpc = "call" => Len(calls) = Len(sleeps)
    \* no sleep after the last attempt
    /\ FetchEnded => Len(sleeps) = Len(calls) - 1

\* C29: for every max_retries >= 0 and every sequence of outcomes,
\* fetch_with_retry ends, after at most max_retries + 1 fetch_page calls and
\* at most max_retries sleeps; the first success is returned with no further
\* call or sleep, every sleep is followed by exactly one more call, and no
\* sleep follows the last call.
C29_TerminatesWithinBudget == []WithinBudget /\ <>FetchEnded

\* the budget was used up to the last attempt, which succeeded
C29_Witness ==
    /\ max_retries = 3 /\ fpc = "returned"
    /\ calls = <<HTTPError(503), HTTPError(429), Timeout, Ok>>
    /\ sleeps = <<1, 10, 4>>

=============================================================================
